---- MODULE Spec2Model ----
(***************************************************************************)
(* A model of the mugen synthesizer's audio engine:                        *)
(*   - the voice manager `Play` (src/src/play.rs) and the settings store   *)
(*     `AudioState` (src/src/state.rs), under arbitrary call sequences     *)
(*     (specification Spec);                                               *)
(*   - the envelope stream `AdsrSource` (src/src/fx/adsr.rs)               *)
(*     (specification SpecAdsr);                                           *)
(*   - `run_audio` (src/src/play.rs): the key poller, the engine's select  *)
(*     loop and the interrupt signal (specifications SpecRun and           *)
(*     FairSpecRun), and the same with tasks that write the settings       *)
(*     (specifications SpecSync and FairSpecSync).                         *)
(*   - the mute flag of `AudioState` under concurrent callers, lock by     *)
(*     lock (specification SpecCallers);                                   *)
(*   - the capture `AudioCapture` and its taps (src/src/audio_capture.rs), *)
(*     without and with a poisoned lock (specifications SpecTap and        *)
(*     SpecTapFault), and with TapSource::next split at its lock blocks    *)
(*     (specification SpecTapSteps);                                       *)
(*   - the volume, the source and the mute flag of `AudioState` under      *)
(*     concurrent writers and readers (specification SpecConcerns);        *)
(*   - the pure functions Key::transpose (src/src/key.rs, specification    *)
(*     SpecKey) and AdsrSource::stage_len_samples (specification SpecLen); *)
(*   - the envelope pane of the UI and tweak_adsr (src/src/ui.rs,          *)
(*     specification SpecUi);                                              *)
(*   - a voice's start and the two syncs of `Play` read by read against    *)
(*     the writers of the settings (specification SpecQuiet);              *)
(*   - the five RwLocks of `AudioState` with their wait queues, under the  *)
(*     calls of the engine and of two writers (specifications SpecLocks    *)
(*     and FairSpecLocks);                                                 *)
(*   - the key events of the visualizer (src/src/visualizer.rs,            *)
(*     specification SpecViz).                                             *)
(* Floating-point amplitudes and volumes are fixed-point numbers in tenths *)
(* (VolOne = 1.0).                                                         *)
(***************************************************************************)
EXTENDS Integers, Sequences, FiniteSets, TLC

\* ------------------------------------------------------------------ bounds
\* The number of events the visualizer processes in one run.
MaxEvents == 2
\* The number of backend sinks that may be alive at once.
MaxSinks == 3
\* The number of next() calls made on one envelope stream.
MaxSamples == 5
\* The number of keys held at once.
MaxHeld == 2
\* The number of messages waiting in the channel.
MaxChan == 1
\* The capture's buffer_size (run_audio passes 2048).
BufferSize == 2
\* The number of tasks that call the mute flag's writers at once.
NCallers == 3

\* ------------------------------------------------------- program constants
\* 1.0 in tenths: the initial volume and the upper clamp of set_volume.
VolOne == 10
\* config::KEYBOARD_BASE_OCTAVE (the octave of the home row).
KEYBOARD_BASE_OCTAVE == 4

\* config::SEMITONES_PER_OCTAVE.
SEMITONES_PER_OCTAVE == 12

\* The octaves of the Keys transposed are -MaxOctave..MaxOctave.
MaxOctave == 2
\* The number of edits made in the envelope pane.
MaxEdits == 3
\* tweak_adsr's bounds in hundredths: 10.0 seconds and a sustain of 1.0.
TenSeconds == 1000
SustainOne == 100
\* The capture's channel count: run_audio calls Play::new(2, 2048, 48000).
CaptureChannels == 2
\* The capture's sample rate in run_audio, and get_sample_rate's default.
DefaultRate == 48000

None == "None"

VARIABLES
    \* Play
    active_sinks,   \* HashMap<Keycode, Sink>: keycode -> sink
    mixer,          \* the sinks the output stream's mixer still plays (ids)
    \* AudioState
    volume,         \* f32 in tenths
    paused,         \* bool (the mute flag)
    source,         \* the active waveform kind
    volume_notify,  \* Option<Arc<Notify>>: "None" or "Some"
    pause_notify,   \* Option<Arc<Notify>>: "None" or "Some"
    audio_capture,  \* the capture handle registered in the store: "None" or "Some"
    volPermit,      \* the permit of Play::volume_notify (tokio Notify)
    pausePermit,    \* the permit of Play::pause_notify
    \* the last call made on Play or the store: its name, its key argument,
    \* whether that key had a voice (for a sync: whether a voice differed from
    \* the store) and how many voices there were before it
    last,
    \* AdsrSource
    adsrSource,     \* the struct: adsr, sample_rate, stage, stage_pos, amplitudes
    gate,           \* Gate = Arc<AtomicBool>: TRUE while the key is held
    input,          \* the wrapped SynthSource: "live" or "ended"
    \* what next() has done so far: the number of calls, the number of calls
    \* made when the gate closed (-1 while open), the samples pulled from the
    \* input, the last result ("Some" or None) and the last sample yielded
    pulls,
    \* run_audio
    pollPc,         \* the polling task: "run" or "done"
    pollExit,       \* why the polling task ended: "-", "stop" (it saw a stop
                    \* combination), "err" (a send failed), "panic"
    prev,           \* the polling task's `prev`
    chan,           \* the unbounded channel tx -> rx
    enginePc,       \* run_audio: "start", "loop", "handling", "stopping",
                    \* "join", "done", "failed"
    todo,           \* the message being handled: the keys still to play and to
                    \* stop; and the keys whose last call by the engine was
                    \* play_note
    sigint,         \* the interrupt signal was delivered (the ctrl_c future is ready)
    shutdown,       \* the permit of the `shutdown` Notify
    exitBy,         \* why the select loop ended: "-", "ctrl_c", "stop", "closed"
    writer,         \* a settings writer between its commit and its notify:
                    \* "idle", "volume", "mute"
    dirty,          \* the concerns committed since the engine last synced them
    \* AudioState under concurrent callers
    callers,        \* each caller of the mute flag's writers: where it is in its
                    \* call ("idle", "flip", "set", "notify"), the flag it read
                    \* or the argument it carries, and the value it returned
    pausedLock,     \* the writer that holds the RwLock of `paused` (0: nobody)
    muteLog,        \* the last write of the mute flag: its kind, the flag before
                    \* it, and the flag the writes made so far amount to
    concerns,       \* the writers that hold the RwLocks of `volume` and `source`
                    \* (0: nobody), and the last read that completed: its
                    \* caller and its concern
    locks,          \* the five RwLocks of AudioState with their queues, and the
                    \* tasks that take them: each task's call and its place in it
    \* AudioCapture
    buffer,         \* Mutex<CaptureBuffer>: data, sample_rate, last_update (the
                    \* number of replacements) and whether the mutex is poisoned
    taps,           \* each TapSource: channels, sample_buffer, the number of
                    \* samples pulled from its source, the samples it yielded,
                    \* and "live", "ended" (the source ended), "cut" (next
                    \* returned None with the source live)
    reader,         \* the visualizer: the last get_data result (a set: {} for
                    \* None), the replacement count then, the number of
                    \* get_data calls (up to 2), the last get_sample_rate result
    \* pure functions and the settings editor
    keyCall,        \* Key::transpose: the key, the shift and the result
    lenCall,        \* stage_len_samples: the AdsrSource, the stage and the result
    ui,             \* UiState: adsr (in hundredths), adsr_param_idx, and the
                    \* number of edits made
    app             \* VisualizerApp: graph (scale in thousandths), the last
                    \* event, the graph before it and what process_event
                    \* returned, and the number of events processed

playVars == <<active_sinks, mixer, last>>
storeVars == <<volume, paused, source, volume_notify, pause_notify, audio_capture,
              volPermit, pausePermit>>
adsrVars == <<adsrSource, gate, input, pulls>>
runVars == <<pollPc, pollExit, prev, chan, enginePc, todo, sigint, shutdown, exitBy, writer,
            dirty>>
lockVars == <<callers, pausedLock, muteLog, concerns, locks>>
capVars == <<buffer, taps, reader>>
pureVars == <<keyCall, lenCall, ui, app>>

\* ----------------------------------------------------------------- key.rs
\* Key::from_keycode: Option<Key> as a set, {} for None and {key} for Some(key).
from_keycode(key) ==
    LET base == KEYBOARD_BASE_OCTAVE IN
    CASE key = "A" -> {[note |-> 0, octave |-> base]}
      [] key = "S" -> {[note |-> 2, octave |-> base]}
      [] key = "D" -> {[note |-> 4, octave |-> base]}
      [] key = "F" -> {[note |-> 5, octave |-> base]}
      [] key = "G" -> {[note |-> 7, octave |-> base]}
      [] key = "H" -> {[note |-> 9, octave |-> base]}
      [] key = "J" -> {[note |-> 11, octave |-> base]}
      [] key = "K" -> {[note |-> 0, octave |-> base + 1]}
      [] key = "L" -> {[note |-> 2, octave |-> base + 1]}
      [] key = "Semicolon" -> {[note |-> 4, octave |-> base + 1]}
      [] key = "Apostrophe" -> {[note |-> 5, octave |-> base + 1]}
      [] key = "W" -> {[note |-> 1, octave |-> base]}
      [] key = "E" -> {[note |-> 3, octave |-> base]}
      [] key = "T" -> {[note |-> 6, octave |-> base]}
      [] key = "Y" -> {[note |-> 8, octave |-> base]}
      [] key = "U" -> {[note |-> 10, octave |-> base]}
      [] key = "O" -> {[note |-> 1, octave |-> base + 1]}
      [] key = "P" -> {[note |-> 3, octave |-> base + 1]}
      [] OTHER -> {}

\* The Key of a key of the layout.
KeyOf(k) == CHOOSE key \in from_keycode(k) : TRUE

\* Note as its discriminant (repr(u8): C = 0 .. B = 11), Note::semitone is
\* `self as i32`.
Notes == 0..11

\* The Keys of the octaves -MaxOctave..MaxOctave.
Keys == [note : Notes, octave : -MaxOctave..MaxOctave]

\* The shifts tried: below and above an octave, both directions, and none.
Shifts == {-13, -12, -1, 0, 1, 12, 13}

\* Key::absolute_semitone.
absolute_semitone(key) == key.octave * SEMITONES_PER_OCTAVE + key.note

\* i32::div_euclid and i32::rem_euclid for a positive divisor: the quotient
\* rounded towards minus infinity and the remainder in 0..rhs-1.
div_euclid(lhs, rhs) == IF lhs >= 0 THEN lhs \div rhs ELSE -((-lhs + rhs - 1) \div rhs)
rem_euclid(lhs, rhs) == lhs - rhs * div_euclid(lhs, rhs)

\* A transpose written with `/` and `%`: the quotient rounded towards zero
\* and the remainder with the sign of the dividend.
transposeTruncating(key, semitones) ==
    LET new_absolute == absolute_semitone(key) + semitones
        new_octave == IF new_absolute >= 0
                      THEN new_absolute \div SEMITONES_PER_OCTAVE
                      ELSE -((-new_absolute) \div SEMITONES_PER_OCTAVE)
    IN [note |-> new_absolute - SEMITONES_PER_OCTAVE * new_octave, octave |-> new_octave]

\* A transpose that takes the octave from the shift alone and loses the
\* carry of the note.
transposeShiftOctave(key, semitones) ==
    [note |-> rem_euclid(key.note + semitones, SEMITONES_PER_OCTAVE),
     octave |-> key.octave + div_euclid(semitones, SEMITONES_PER_OCTAVE)]

\* Key::transpose; the match maps the values 0..11 to the Note with that
\* discriminant.
transpose(key, semitones) ==
    LET new_absolute == absolute_semitone(key) + semitones
        new_octave == div_euclid(new_absolute, SEMITONES_PER_OCTAVE)
        new_note_value == rem_euclid(new_absolute, SEMITONES_PER_OCTAVE)
    IN [note |-> new_note_value, octave |-> new_octave]

\* The physical keys of the model's keyboard: two keys of the layout, two
\* keys outside it, and the keys of the stop combinations.
Keycodes == {"A", "S", "C", "LControl", "Escape"}
\* The keyboard while the settings are written.
SyncKeys == {"A", "Escape"}
\* The keys the voice manager is called with under Spec.
ApiKeys == {"A", "S", "C"}
\* The waveform kinds the store may hold.
Waves == {"sine", "saw"}
\* f32::NAN, the one f32 that is neither below, equal to, nor above any other.
NaN == -1000
\* The arguments of set_volume, in tenths: below 0, inside [0,1], above 1,
\* and not a number.
VolInputs == {-10, 5, 15, NaN}
\* The arguments of set_volume while run_audio runs.
RunVolInputs == {5, 15}
\* The samples of a wrapped source, in tenths of full amplitude.
InputSamples == {-10, 10}

\* The record of a call, taken before the call acts.
Call(op, k) ==
    [op |-> op, key |-> k, had |-> k \in DOMAIN active_sinks,
     n |-> Cardinality(DOMAIN active_sinks), arg |-> 0]

\* --------------------------------------------------------------- state.rs
\* The f32 comparison a < b: false when either side is NaN.
fless(a, b) == a # NaN /\ b # NaN /\ a < b

\* f32::clamp(0.0, 1.0): `if self < min { min } else if self > max { max }
\* else { self }`.
clamp(v) == IF fless(v, 0) THEN 0 ELSE IF fless(VolOne, v) THEN VolOne ELSE v

\* Notify::notify_one on an Option<Arc<Notify>>: stores the permit.
notify_one(handle, permit) == IF handle = "Some" THEN TRUE ELSE permit

\* AudioState::set_volume, all of it.
SetVolume(v) ==
    /\ volume' = clamp(v)
    /\ volPermit' = notify_one(volume_notify, volPermit)
    /\ last' = [Call("set_volume", None) EXCEPT !.arg = v]
    /\ UNCHANGED <<paused, source, volume_notify, pause_notify, pausePermit, audio_capture>>
    /\ UNCHANGED <<active_sinks, mixer>>

\* AudioState::set_muted, all of it.
SetMuted(p) ==
    /\ paused' = p
    /\ pausePermit' = notify_one(pause_notify, pausePermit)
    /\ last' = Call("set_muted", None)
    /\ UNCHANGED <<volume, source, volume_notify, pause_notify, volPermit, audio_capture>>
    /\ UNCHANGED <<active_sinks, mixer>>

\* AudioState::toggle_muted, all of it.
ToggleMuted ==
    /\ paused' = ~paused
    /\ pausePermit' = notify_one(pause_notify, pausePermit)
    /\ last' = Call("toggle_muted", None)
    /\ UNCHANGED <<volume, source, volume_notify, pause_notify, volPermit, audio_capture>>
    /\ UNCHANGED <<active_sinks, mixer>>

\* set_source that also rebuilds the voices that sound (each gets the new
\* waveform).
SetSourceRebuild(w) ==
    /\ source' = w
    /\ last' = Call("set_source", None)
    /\ UNCHANGED <<volume, paused, volume_notify, pause_notify, volPermit, pausePermit, audio_capture>>
    /\ active_sinks' = [k \in DOMAIN active_sinks |-> [active_sinks[k] EXCEPT !.wave = w]]
    /\ UNCHANGED mixer

\* AudioState::set_source
SetSource(w) ==
    /\ source' = w
    /\ last' = Call("set_source", None)
    /\ UNCHANGED <<volume, paused, volume_notify, pause_notify, volPermit, pausePermit, audio_capture>>
    /\ UNCHANGED <<active_sinks, mixer>>

\* AudioState::set_volume_notify and set_muted_notify, as run_audio calls them.
SetNotifyHandles ==
    /\ volume_notify = None
    /\ volume_notify' = "Some"
    /\ pause_notify' = "Some"
    /\ last' = Call("set_notify", None)
    /\ UNCHANGED <<volume, paused, source, volPermit, pausePermit, audio_capture>>
    /\ UNCHANGED <<active_sinks, mixer>>

\* ---------------------------------------------------------------- play.rs
\* The sink ids the mixer does not use.
FreeSinks == (1..MaxSinks) \ mixer

MinOf(S) == CHOOSE x \in S : \A y \in S : x <= y

\* HashMap::new
EmptyMap == [x \in {} |-> {}]

\* HashMap::insert
MapInsert(m, k, s) == [x \in (DOMAIN m) \cup {k} |-> IF x = k THEN s ELSE m[x]]

\* HashMap::remove
MapRemove(m, k) == [x \in (DOMAIN m) \ {k} |-> m[x]]

\* A sink left as Sink::connect_new makes it: full volume, playing.
NewSinkDefaults(id, key) ==
    [id |-> id, volume |-> VolOne, paused |-> FALSE, wave |-> source, key |-> key,
     nodes |-> <<"tap">>]

\* The sink play_note builds: connected to the mixer, at the store's volume,
\* paused if the store is muted, playing the store's waveform at the key's
\* frequency; `nodes` are the wrappers put around the source before it is
\* appended (the capture tap only).
NewSink(id, key) ==
    [id |-> id, volume |-> volume, paused |-> paused, wave |-> source, key |-> key,
     nodes |-> <<"tap">>]

\* play_note without the contains_key test: the entry is replaced, the
\* replaced sink is dropped (a dropped Sink stops).
PlayNoteNoCheck(k) ==
    /\ last' = Call("play_note", k)
    /\ IF from_keycode(k) = {}
       THEN UNCHANGED <<active_sinks, mixer>>
       ELSE /\ FreeSinks # {}
            /\ LET id == MinOf(FreeSinks)
                   old == IF k \in DOMAIN active_sinks THEN {active_sinks[k].id} ELSE {}
               IN /\ active_sinks' = MapInsert(active_sinks, k, NewSink(id, KeyOf(k)))
                  /\ mixer' = (mixer \ old) \cup {id}

\* A play_note that gives a key outside the layout a voice too (at the
\* layout's first Key).
PlayNoteUnmapped(k) ==
    /\ last' = Call("play_note", k)
    /\ IF k \in DOMAIN active_sinks
       THEN UNCHANGED <<active_sinks, mixer>>
       ELSE /\ FreeSinks # {}
            /\ LET id == MinOf(FreeSinks)
                   key == IF from_keycode(k) = {} THEN KeyOf("A") ELSE KeyOf(k)
               IN /\ active_sinks' = MapInsert(active_sinks, k, NewSink(id, key))
                  /\ mixer' = mixer \cup {id}

\* Play::play_note
PlayNote(k) ==
    /\ last' = Call("play_note", k)
    /\ IF k \in DOMAIN active_sinks
       THEN UNCHANGED <<active_sinks, mixer>>
       ELSE IF from_keycode(k) = {}
       THEN UNCHANGED <<active_sinks, mixer>>
       ELSE /\ FreeSinks # {}
            /\ LET id == MinOf(FreeSinks)
               IN /\ active_sinks' = MapInsert(active_sinks, k, NewSink(id, KeyOf(k)))
                  /\ mixer' = mixer \cup {id}

\* stop_note that unwraps the removed entry: a missing key is a panic, which
\* unwinds through Drop for Play (stop_all).
StopNoteUnwrap(k) ==
    /\ last' = Call(IF k \in DOMAIN active_sinks THEN "stop_note" ELSE "panic", k)
    /\ IF k \in DOMAIN active_sinks
       THEN /\ active_sinks' = MapRemove(active_sinks, k)
            /\ mixer' = mixer \ {active_sinks[k].id}
       ELSE /\ active_sinks' = EmptyMap
            /\ mixer' = {}

\* Play::stop_note
StopNote(k) ==
    /\ last' = Call("stop_note", k)
    /\ IF k \in DOMAIN active_sinks
       THEN /\ active_sinks' = MapRemove(active_sinks, k)
            /\ mixer' = mixer \ {active_sinks[k].id}
       ELSE UNCHANGED <<active_sinks, mixer>>

\* stop_all that stops one entry only (a loop that returns early).
StopAllFirstOnly ==
    /\ last' = Call("stop_all", None)
    /\ IF DOMAIN active_sinks = {}
       THEN UNCHANGED <<active_sinks, mixer>>
       ELSE \E k \in DOMAIN active_sinks :
              /\ active_sinks' = MapRemove(active_sinks, k)
              /\ mixer' = mixer \ {active_sinks[k].id}

\* Play::stop_all (also Drop for Play)
StopAll ==
    /\ last' = Call("stop_all", None)
    /\ active_sinks' = EmptyMap
    /\ mixer' = mixer \ {active_sinks[k].id : k \in DOMAIN active_sinks}

\* Play::sync_volume
SyncVolume ==
    /\ last' = [Call("sync_volume", None) EXCEPT
                   !.had = \E k \in DOMAIN active_sinks : active_sinks[k].volume # volume]
    /\ active_sinks' = [k \in DOMAIN active_sinks |->
                          [active_sinks[k] EXCEPT !.volume = volume]]
    /\ UNCHANGED mixer

\* sync_muted_state that pauses the voices of a muted store and never
\* resumes them.
SyncMutedStatePauseOnly ==
    /\ last' = [Call("sync_muted_state", None) EXCEPT
                   !.had = \E k \in DOMAIN active_sinks : active_sinks[k].paused # paused]
    /\ active_sinks' = [k \in DOMAIN active_sinks |->
                          [active_sinks[k] EXCEPT !.paused = paused \/ @]]
    /\ UNCHANGED mixer

\* Play::sync_muted_state
SyncMutedState ==
    /\ last' = [Call("sync_muted_state", None) EXCEPT
                   !.had = \E k \in DOMAIN active_sinks : active_sinks[k].paused # paused]
    /\ active_sinks' = [k \in DOMAIN active_sinks |->
                          [active_sinks[k] EXCEPT !.paused = paused]]
    /\ UNCHANGED mixer

\* ------------------------------------- state.rs under concurrent callers
Callers == 1..NCallers

\* toggle_muted takes the flag's lock while another writer holds it, and
\* reads the flag (a read guard released before the write).
ToggleLockShared(t) ==
    /\ callers[t].pc = "idle"
    /\ pausedLock' = t
    /\ callers' = [callers EXCEPT ![t] = [@ EXCEPT !.pc = "flip", !.seen = paused]]
    /\ UNCHANGED <<paused, pausePermit, muteLog>>

\* toggle_muted: `let mut p = self.paused.write().await`, which waits until
\* no other guard of the flag is alive, and the read of `*p`.
ToggleLock(t) ==
    /\ callers[t].pc = "idle"
    /\ pausedLock = 0
    /\ pausedLock' = t
    /\ callers' = [callers EXCEPT ![t] = [@ EXCEPT !.pc = "flip", !.seen = paused]]
    /\ UNCHANGED <<paused, pausePermit, muteLog>>

\* toggle_muted: `*p = !*p; let new_state = *p; drop(p);`
ToggleFlip(t) ==
    /\ callers[t].pc = "flip"
    /\ paused' = ~callers[t].seen
    /\ pausedLock' = 0
    /\ callers' = [callers EXCEPT ![t] = [@ EXCEPT !.pc = "notify", !.ret = paused']]
    /\ muteLog' = [op |-> "toggle", before |-> paused, expect |-> ~muteLog.expect]
    /\ UNCHANGED pausePermit

\* set_muted: `let mut p = self.paused.write().await;`
SetMutedLock(t, muted) ==
    /\ callers[t].pc = "idle"
    /\ pausedLock = 0
    /\ pausedLock' = t
    /\ callers' = [callers EXCEPT ![t] = [@ EXCEPT !.pc = "set", !.seen = muted]]
    /\ UNCHANGED <<paused, pausePermit, muteLog>>

\* set_muted: `*p = muted; drop(p);`
SetMutedWrite(t) ==
    /\ callers[t].pc = "set"
    /\ paused' = callers[t].seen
    /\ pausedLock' = 0
    /\ callers' = [callers EXCEPT ![t] = [@ EXCEPT !.pc = "notify"]]
    /\ muteLog' = [op |-> "set", before |-> paused, expect |-> callers[t].seen]
    /\ UNCHANGED pausePermit

\* toggle_muted and set_muted: the notify_one after the guard is dropped,
\* and the return.
CallerNotify(t) ==
    /\ callers[t].pc = "notify"
    /\ pausePermit' = notify_one(pause_notify, pausePermit)
    /\ callers' = [callers EXCEPT ![t] = [@ EXCEPT !.pc = "idle", !.seen = FALSE]]
    /\ UNCHANGED <<paused, pausedLock, muteLog>>

\* The volume and the source have an RwLock each, as the mute flag has:
\* concerns.volume and concerns.source are the callers that hold their write
\* guards, 0 when free. concerns.what, vol, muted record the last read, its
\* name and what it returned, and concerns.others the locks that were
\* write-held by others when it was made.
WriteHeld ==
    {c \in {"volume", "source", "paused"} :
        \/ c = "volume" /\ concerns.volume # 0
        \/ c = "source" /\ concerns.source # 0
        \/ c = "paused" /\ pausedLock # 0}

\* The tasks that use the store at once, and the volumes and waveforms the
\* writers among them pass.
ConcernTasks == {1, 2, 3}
CallerVolumes == {5, 15}
CallerSources == {"sine", "saw"}

\* set_volume: `let mut volume = self.volume.write().await;`
SetVolumeLock(t) ==
    /\ callers[t].pc = "idle"
    /\ concerns.volume = 0
    /\ concerns' = [concerns EXCEPT !.volume = t]
    /\ callers' = [callers EXCEPT ![t] = [@ EXCEPT !.pc = "vol"]]
    /\ UNCHANGED <<volume, source, volPermit>>

\* set_volume: `*volume = clamped; drop(volume);` for the argument vol.
SetVolumeWrite(t, vol) ==
    /\ callers[t].pc = "vol"
    /\ volume' = clamp(vol)
    /\ concerns' = [concerns EXCEPT !.volume = 0]
    /\ callers' = [callers EXCEPT ![t] = [@ EXCEPT !.pc = "vnotify"]]
    /\ UNCHANGED <<source, volPermit>>

\* set_volume: the notify_one after the guard is dropped, and the return.
SetVolumeNotify(t) ==
    /\ callers[t].pc = "vnotify"
    /\ volPermit' = notify_one(volume_notify, volPermit)
    /\ callers' = [callers EXCEPT ![t] = [@ EXCEPT !.pc = "idle"]]
    /\ UNCHANGED <<volume, source, concerns>>

\* set_source: `let mut source = self.source.write().await;`
SetSourceLock(t) ==
    /\ callers[t].pc = "idle"
    /\ concerns.source = 0
    /\ concerns' = [concerns EXCEPT !.source = t]
    /\ callers' = [callers EXCEPT ![t] = [@ EXCEPT !.pc = "src"]]
    /\ UNCHANGED <<volume, source, volPermit>>

\* set_source: `*source = new_source;` and the return, which drops the guard.
SetSourceWrite(t, new_source) ==
    /\ callers[t].pc = "src"
    /\ source' = new_source
    /\ concerns' = [concerns EXCEPT !.source = 0]
    /\ callers' = [callers EXCEPT ![t] = [@ EXCEPT !.pc = "idle"]]
    /\ UNCHANGED <<volume, volPermit>>

\* A get_volume on a store with one lock for all its fields.
GetVolumeOneLock(t) ==
    /\ callers[t].pc = "idle"
    /\ WriteHeld = {}
    /\ concerns' = [concerns EXCEPT !.what = "get_volume", !.vol = volume,
                                    !.muted = FALSE, !.others = WriteHeld]
    /\ UNCHANGED <<callers, volume, source, volPermit>>

\* get_volume: `*self.volume.read().await`, which waits while a write guard
\* of the volume is alive.
GetVolume(t) ==
    /\ callers[t].pc = "idle"
    /\ concerns.volume = 0
    /\ concerns' = [concerns EXCEPT !.what = "get_volume", !.vol = volume,
                                    !.muted = FALSE, !.others = WriteHeld]
    /\ UNCHANGED <<callers, volume, source, volPermit>>

\* is_muted: `*self.paused.read().await`, which waits while a write guard of
\* the mute flag is alive.
IsMuted(t) ==
    /\ callers[t].pc = "idle"
    /\ pausedLock = 0
    /\ concerns' = [concerns EXCEPT !.what = "is_muted", !.muted = paused,
                                    !.vol = VolOne, !.others = WriteHeld]
    /\ UNCHANGED <<callers, volume, source, volPermit>>

\* ------------------------------------------------------- audio_capture.rs
\* The taps of the model and the channel counts of their wrapped sources.
Taps == {1, 2}
TapChannels == {1, 2}
\* The sample rates a capture is built with.
CaptureRates == {44100, DefaultRate}
\* The number of samples a wrapped source yields before it ends.
SrcLen == 2 * BufferSize + 1
\* The i-th sample of tap t's wrapped source.
Sample(t, i) == 10 * t + i
\* The samples a source has yielded after n pulls.
Pulled(t, n) == [i \in 1..n |-> Sample(t, i)]

\* AudioCapture::new: vec![vec![0.0; buffer_size]; channels] in a Mutex;
\* `holder` is the tap that holds the Mutex's guard, 0 when it is free.
AudioCaptureNew(channels, buffer_size, sample_rate) ==
    [data |-> [c \in 1..channels |-> [i \in 1..buffer_size |-> 0]],
     sample_rate |-> sample_rate, last_update |-> 0, poisoned |-> FALSE,
     holder |-> 0]

\* AudioCapture::create_tap_source
create_tap_source(channels) ==
    [channels |-> channels, sample_buffer |-> <<>>, got |-> 0, gave |-> <<>>,
     state |-> "live", buffer_size |-> 0]

\* stream_to_matrix's loop: each sample goes to the row `channel`, which then
\* advances round-robin (rows are numbered from 1 here).
RECURSIVE deinterleave(_, _, _, _)
deinterleave(out, channel, stream, channels) ==
    IF stream = <<>>
    THEN out
    ELSE deinterleave([out EXCEPT ![channel] = Append(@, Head(stream))],
                      (channel % channels) + 1, Tail(stream), channels)

\* A stream_to_matrix that fills the rows one after the other, each with a
\* block of consecutive samples.
stream_to_matrixBlocks(stream, channels) ==
    LET n == Len(stream) \div channels
    IN [c \in 1..channels |-> [i \in 1..n |-> stream[(c - 1) * n + i]]]

\* stream_to_matrix(stream, channels, 1.0)
stream_to_matrix(stream, channels) ==
    deinterleave([c \in 1..channels |-> <<>>], 1, stream, channels)

\* A fill test that ignores the channel count.
FullAtRowLength(buffer_size, channels) == buffer_size

\* A fill test with > for >=.
FullAtOneMore(buffer_size, channels) == buffer_size * channels + 1

\* The scratch length at which TapSource::next replaces the snapshot.
FullAt(buffer_size, channels) == buffer_size * channels

\* TapSource::next, all of it.
TapNext(t) ==
    LET tap == taps[t]
        sample == Sample(t, tap.got + 1)
        scratch == Append(tap.sample_buffer, sample)
        pulled == [tap EXCEPT !.got = @ + 1, !.sample_buffer = scratch]
    IN
    /\ tap.state = "live"
    /\ buffer.holder = 0
    /\ UNCHANGED reader
    /\ IF tap.got >= SrcLen
       THEN \* self.source.next()? on an ended source
            /\ taps' = [taps EXCEPT ![t] = [tap EXCEPT !.state = "ended"]]
            /\ UNCHANGED buffer
       ELSE IF buffer.poisoned \/ buffer.data = <<>>
       THEN \* self.buffer.lock().ok()?  and  buf.data.first()?
            /\ taps' = [taps EXCEPT ![t] = [pulled EXCEPT !.state = "cut"]]
            /\ UNCHANGED buffer
       ELSE IF Len(scratch) >= FullAt(Len(buffer.data[1]), tap.channels)
       THEN /\ buffer' = [buffer EXCEPT
                             !.data = stream_to_matrix(scratch, tap.channels),
                             !.last_update = @ + 1]
            /\ taps' = [taps EXCEPT ![t] =
                           [pulled EXCEPT !.sample_buffer = <<>>,
                                          !.gave = Append(@, sample)]]
       ELSE /\ taps' = [taps EXCEPT ![t] = [pulled EXCEPT !.gave = Append(@, sample)]]
            /\ UNCHANGED buffer

\* A get_data that moves the matrix out of the buffer (std::mem::take).
GetDataTake ==
    /\ buffer.holder = 0
    /\ reader' = [reader EXCEPT
                     !.res = IF buffer.poisoned THEN {} ELSE {buffer.data},
                     !.at = buffer.last_update,
                     !.reads = IF @ < 2 THEN @ + 1 ELSE @]
    /\ buffer' = [buffer EXCEPT !.data = IF buffer.poisoned THEN @ ELSE <<>>]
    /\ UNCHANGED taps

\* AudioCapture::get_data
GetData ==
    /\ buffer.holder = 0
    /\ reader' = [reader EXCEPT
                     !.res = IF buffer.poisoned THEN {} ELSE {buffer.data},
                     !.at = buffer.last_update,
                     !.reads = IF @ < 2 THEN @ + 1 ELSE @]
    /\ UNCHANGED <<buffer, taps>>

\* AudioCapture::get_sample_rate
GetSampleRate ==
    /\ buffer.holder = 0
    /\ reader' = [reader EXCEPT
                     !.rate = IF buffer.poisoned THEN DefaultRate ELSE buffer.sample_rate]
    /\ UNCHANGED <<buffer, taps>>

\* TapSource::next in the steps another thread can come between. A tap's
\* `state` is its place in the call: "live" outside it, "pulled" after the
\* push, "len" in the block that reads the row length, "full" after a
\* positive fill test, "replace" in the block that replaces the snapshot;
\* `buffer_size` is the local of that name.
\*
\* A next that takes the guard first and pulls the sample under it.
TapPullLocked(t) ==
    LET tap == taps[t] IN
    /\ tap.state = "live"
    /\ buffer.holder = 0
    /\ tap.got < SrcLen
    /\ taps' = [taps EXCEPT ![t] =
                   [tap EXCEPT !.got = @ + 1,
                               !.sample_buffer = Append(@, Sample(t, tap.got + 1)),
                               !.state = "len"]]
    /\ buffer' = [buffer EXCEPT !.holder = t]
    /\ UNCHANGED reader

\* let sample = self.source.next()?; self.sample_buffer.push(sample);
TapPull(t) ==
    LET tap == taps[t] IN
    /\ tap.state = "live"
    /\ taps' = [taps EXCEPT ![t] =
                   IF tap.got >= SrcLen
                   THEN [tap EXCEPT !.state = "ended"]
                   ELSE [tap EXCEPT !.got = @ + 1,
                                    !.sample_buffer = Append(@, Sample(t, tap.got + 1)),
                                    !.state = "pulled"]]
    /\ UNCHANGED <<buffer, reader>>

\* let buf = self.buffer.lock().ok()?;
TapLockLen(t) ==
    LET tap == taps[t] IN
    /\ tap.state = "pulled"
    /\ buffer.holder = 0
    /\ IF buffer.poisoned
       THEN /\ taps' = [taps EXCEPT ![t] = [tap EXCEPT !.state = "cut"]]
            /\ UNCHANGED buffer
       ELSE /\ taps' = [taps EXCEPT ![t] = [tap EXCEPT !.state = "len"]]
            /\ buffer' = [buffer EXCEPT !.holder = t]
    /\ UNCHANGED reader

\* buf.data.first()?.len(), the end of the block, and the fill test; a
\* negative test ends the call with Some(sample).
TapReadLen(t) ==
    LET tap == taps[t]
        buffer_size == Len(buffer.data[1])
    IN
    /\ tap.state = "len"
    /\ buffer.holder = t
    /\ buffer' = [buffer EXCEPT !.holder = 0]
    /\ taps' = [taps EXCEPT ![t] =
                   IF buffer.data = <<>>
                   THEN [tap EXCEPT !.state = "cut"]
                   ELSE IF Len(tap.sample_buffer) >= FullAt(buffer_size, tap.channels)
                   THEN [tap EXCEPT !.buffer_size = buffer_size, !.state = "full"]
                   ELSE [tap EXCEPT !.buffer_size = buffer_size, !.state = "live",
                                    !.gave = Append(@, Sample(t, tap.got))]]
    /\ UNCHANGED reader

\* if let Ok(mut buf) = self.buffer.lock(); on Err the call ends with
\* Some(sample) and the scratch is kept.
TapLockReplace(t) ==
    LET tap == taps[t] IN
    /\ tap.state = "full"
    /\ buffer.holder = 0
    /\ IF buffer.poisoned
       THEN /\ taps' = [taps EXCEPT ![t] =
                           [tap EXCEPT !.state = "live",
                                       !.gave = Append(@, Sample(t, tap.got))]]
            /\ UNCHANGED buffer
       ELSE /\ taps' = [taps EXCEPT ![t] = [tap EXCEPT !.state = "replace"]]
            /\ buffer' = [buffer EXCEPT !.holder = t]
    /\ UNCHANGED reader

\* The replacement, the clear, the end of the block, and Some(sample).
TapReplace(t) ==
    LET tap == taps[t] IN
    /\ tap.state = "replace"
    /\ buffer.holder = t
    /\ buffer' = [buffer EXCEPT
                     !.data = stream_to_matrix(tap.sample_buffer, tap.channels),
                     !.last_update = @ + 1,
                     !.holder = 0]
    /\ taps' = [taps EXCEPT ![t] =
                   [tap EXCEPT !.sample_buffer = <<>>, !.state = "live",
                               !.gave = Append(@, Sample(t, tap.got))]]
    /\ UNCHANGED reader

\* A thread panics while it holds the buffer's guard: the mutex is poisoned
\* and every later lock() is an Err.
Poison ==
    /\ ~buffer.poisoned
    /\ buffer' = [buffer EXCEPT !.poisoned = TRUE]
    /\ UNCHANGED <<taps, reader>>

vars == <<active_sinks, mixer, volume, paused, source, volume_notify, pause_notify,
          volPermit, pausePermit, last, adsrSource, gate, input, pulls,
          pollPc, prev, chan, enginePc, todo, sigint, shutdown, exitBy, writer, dirty,
          callers, pausedLock, muteLog, buffer, taps, reader,
          audio_capture, pollExit, concerns, keyCall, lenCall, ui, locks, app>>

\* The state after AudioState::new and Play::new.
InitStore ==
    /\ volume = VolOne
    /\ paused = FALSE
    /\ source = "sine"
    /\ volume_notify = None
    /\ pause_notify = None
    /\ audio_capture = None
    /\ volPermit = FALSE
    /\ pausePermit = FALSE

InitPlay ==
    /\ active_sinks = EmptyMap
    /\ mixer = {}
    /\ last = [op |-> "new", key |-> None, had |-> FALSE, n |-> 0, arg |-> 0]

\* No envelope stream is built (play_note wraps its source with the tap only).
NoAdsr ==
    /\ adsrSource = None
    /\ gate = TRUE
    /\ input = "live"
    /\ pulls = None

\* The locals of the engine's call in progress when play_note, sync_volume
\* and sync_muted_state are taken await by await: `pc` is the await the call
\* is at ("-" outside a call), `volume`, `paused`, `wave` what it has read from
\* the store, `raced` whether the store had changed under the last play_note
\* between its reads and its insert.
IdleNote ==
    [pc |-> "-", key |-> "-", volume |-> VolOne, paused |-> FALSE, wave |-> "sine",
     raced |-> FALSE]

\* run_audio is not running.
NoRun ==
    /\ pollPc = "done"
    /\ pollExit = "-"
    /\ prev = {}
    /\ chan = <<>>
    /\ enginePc = "done"
    /\ todo = [down |-> {}, up |-> {}, held |-> {}, note |-> IdleNote]
    /\ sigint = FALSE
    /\ shutdown = FALSE
    /\ exitBy = "-"
    /\ writer = "idle"
    /\ dirty = {}

\* No lock of `volume` or `source` is held and nothing was read.
FreeConcerns ==
    [volume |-> 0, source |-> 0, what |-> "-", vol |-> VolOne, muted |-> FALSE,
     others |-> {}]

\* ------------------------------------- the store's locks and their queues
\* The RwLocks of AudioState. tokio's RwLock is fair: requests queue in order
\* of arrival, so a read that arrives after a waiting write waits behind it.
LockNames == {"source", "volume", "paused", "volume_notify", "pause_notify"}

\* The tasks that use the store: the engine task (1) and two other tasks.
LockTasks == {1, 2, 3}

\* No lock is held or asked for, and no task is known.
FreeLocks ==
    [rw |-> [l \in LockNames |-> [w |-> 0, r |-> {}, q |-> <<>>]],
     task |-> <<>>]

\* The lock steps of a call: `.read().await` / `.write().await` on a lock,
\* and the drop of its guard.
Acq(l, mode) == [do |-> "acq", lock |-> l, mode |-> mode]
Rel(l) == [do |-> "rel", lock |-> l, mode |-> "-"]

\* A play_note that takes the source's read lock a second time while it
\* holds the first guard.
PlayNoteLocksReread ==
    <<Acq("source", "r"), Acq("volume", "r"), Rel("volume"), Acq("source", "r"),
      Acq("paused", "r"), Rel("paused"), Rel("source")>>

\* play_note: `src` (the source's read guard) lives to the end of the block,
\* the guards of get_volume and is_muted to the end of their statements.
PlayNoteLocks ==
    <<Acq("source", "r"), Acq("volume", "r"), Rel("volume"),
      Acq("paused", "r"), Rel("paused"), Rel("source")>>

\* The locks each call takes, in order.
LockProgram(op) ==
    CASE op = "play_note" -> PlayNoteLocks
      [] op = "sync_volume" -> <<Acq("volume", "r"), Rel("volume")>>
      [] op = "sync_muted_state" -> <<Acq("paused", "r"), Rel("paused")>>
      [] op = "set_volume" -> <<Acq("volume", "w"), Rel("volume"),
                                Acq("volume_notify", "r"), Rel("volume_notify")>>
      [] op = "set_muted" -> <<Acq("paused", "w"), Rel("paused"),
                               Acq("pause_notify", "r"), Rel("pause_notify")>>
      [] op = "toggle_muted" -> <<Acq("paused", "w"), Rel("paused"),
                                  Acq("pause_notify", "r"), Rel("pause_notify")>>
      [] op = "set_source" -> <<Acq("source", "w"), Rel("source")>>
      [] op = "set_volume_notify" -> <<Acq("volume_notify", "w"), Rel("volume_notify")>>
      [] op = "set_muted_notify" -> <<Acq("pause_notify", "w"), Rel("pause_notify")>>

\* The calls of the engine task (Play's methods take &mut self; run_audio
\* registers the handles) and of the other tasks.
EngineOps == {"play_note", "sync_volume", "sync_muted_state", "set_volume_notify",
              "set_muted_notify"}
WriterOps == {"set_volume", "set_muted", "toggle_muted", "set_source"}
OpsOf(t) == IF t = 1 THEN EngineOps ELSE WriterOps

IdleTask == [op |-> "idle", pc |-> 0, waiting |-> FALSE]

\* The task after the step at pc: at the next step, or returned.
Advance(ts) ==
    IF ts.pc = Len(LockProgram(ts.op)) THEN IdleTask
    ELSE [ts EXCEPT !.pc = @ + 1, !.waiting = FALSE]

\* The step a task is at.
StepOf(t) == LockProgram(locks.task[t].op)[locks.task[t].pc]

\* A task calls a function of the store or of Play.
LockStart(t, op) ==
    /\ locks.task[t].op = "idle"
    /\ locks' = [locks EXCEPT !.task[t] = [op |-> op, pc |-> 1, waiting |-> FALSE]]

\* .read().await / .write().await: the request joins the lock's queue.
LockRequest(t) ==
    /\ locks.task[t].op # "idle"
    /\ ~locks.task[t].waiting
    /\ StepOf(t).do = "acq"
    /\ locks' = [locks EXCEPT
                   !.rw[StepOf(t).lock].q = Append(@, [t |-> t, mode |-> StepOf(t).mode]),
                   !.task[t].waiting = TRUE]

\* The request at the head of the queue is granted: a read when no write
\* guard is alive, a write when no guard is alive.
LockGrant(t) ==
    /\ locks.task[t].op # "idle"
    /\ locks.task[t].waiting
    /\ LET l == StepOf(t).lock
           rw == locks.rw[l]
       IN /\ rw.q # <<>>
          /\ Head(rw.q).t = t
          /\ rw.w = 0
          /\ StepOf(t).mode = "w" => rw.r = {}
          /\ locks' = [locks EXCEPT
                         !.rw[l] = [w |-> IF StepOf(t).mode = "w" THEN t ELSE 0,
                                    r |-> IF StepOf(t).mode = "r" THEN rw.r \cup {t} ELSE rw.r,
                                    q |-> Tail(rw.q)],
                         !.task[t] = Advance(@)]

\* The guard is dropped.
LockRelease(t) ==
    /\ locks.task[t].op # "idle"
    /\ StepOf(t).do = "rel"
    /\ LET l == StepOf(t).lock
       IN locks' = [locks EXCEPT
                      !.rw[l].w = IF @ = t THEN 0 ELSE @,
                      !.rw[l].r = @ \ {t},
                      !.task[t] = Advance(@)]

\* Nobody is inside a write of the mute flag.
NoCallers ==
    /\ callers = <<>>
    /\ pausedLock = 0
    /\ muteLog = [op |-> "new", before |-> FALSE, expect |-> FALSE]
    /\ concerns = FreeConcerns
    /\ locks = FreeLocks

\* No pure function is under test and no editor is open.
NoPure ==
    /\ keyCall = None
    /\ lenCall = None
    /\ ui = None
    /\ app = None

\* The capture as Play::new builds it, with no tap and no reader yet.
NoTap ==
    /\ buffer = AudioCaptureNew(CaptureChannels, BufferSize, DefaultRate)
    /\ taps = <<>>
    /\ reader = [res |-> {}, at |-> 0, reads |-> 0, rate |-> 0]

Init == InitStore /\ InitPlay /\ NoAdsr /\ NoRun /\ NoCallers /\ NoTap /\ NoPure

\* Any call on Play or on the store, in any order.
Next ==
    \/ \E k \in ApiKeys : PlayNote(k) /\ UNCHANGED <<storeVars, adsrVars, runVars, lockVars, capVars, pureVars>>
    \/ \E k \in ApiKeys : StopNote(k) /\ UNCHANGED <<storeVars, adsrVars, runVars, lockVars, capVars, pureVars>>
    \/ StopAll /\ UNCHANGED <<storeVars, adsrVars, runVars, lockVars, capVars, pureVars>>
    \/ SyncVolume /\ UNCHANGED <<storeVars, adsrVars, runVars, lockVars, capVars, pureVars>>
    \/ SyncMutedState /\ UNCHANGED <<storeVars, adsrVars, runVars, lockVars, capVars, pureVars>>
    \/ \E v \in VolInputs : SetVolume(v) /\ UNCHANGED <<adsrVars, runVars, lockVars, capVars, pureVars>>
    \/ \E p \in BOOLEAN : SetMuted(p) /\ UNCHANGED <<adsrVars, runVars, lockVars, capVars, pureVars>>
    \/ ToggleMuted /\ UNCHANGED <<adsrVars, runVars, lockVars, capVars, pureVars>>
    \/ \E w \in Waves : SetSource(w) /\ UNCHANGED <<adsrVars, runVars, lockVars, capVars, pureVars>>
    \/ SetNotifyHandles /\ UNCHANGED <<adsrVars, runVars, lockVars, capVars, pureVars>>

Spec == Init /\ [][Next]_vars

\* ----------------------------------- the mute flag under concurrent callers
\* The store with the notify handles registered and NCallers tasks, each
\* calling toggle_muted or set_muted again and again.
InitCallers ==
    /\ InitStore /\ InitPlay /\ NoAdsr /\ NoRun /\ NoTap /\ NoPure
    /\ callers = [t \in Callers |-> [pc |-> "idle", seen |-> FALSE, ret |-> FALSE]]
    /\ pausedLock = 0
    /\ muteLog = [op |-> "new", before |-> FALSE, expect |-> FALSE]
    /\ concerns = FreeConcerns
    /\ locks = FreeLocks

\* What a call on the volume or the source, or a read, leaves alone.
otherThanConcerns ==
    <<playVars, paused, volume_notify, pause_notify, pausePermit, audio_capture,
      pausedLock, muteLog, locks, adsrVars, runVars, capVars, pureVars>>

NextCallers ==
    \/ \E t \in Callers : ToggleLock(t)
          /\ UNCHANGED <<playVars, volume, source, volume_notify, pause_notify,
                         volPermit, audio_capture, adsrVars, runVars, capVars,
                         concerns, locks, pureVars>>
    \/ \E t \in Callers : ToggleFlip(t)
          /\ UNCHANGED <<playVars, volume, source, volume_notify, pause_notify,
                         volPermit, audio_capture, adsrVars, runVars, capVars,
                         concerns, locks, pureVars>>
    \/ \E t \in Callers : \E muted \in BOOLEAN : SetMutedLock(t, muted)
          /\ UNCHANGED <<playVars, volume, source, volume_notify, pause_notify,
                         volPermit, audio_capture, adsrVars, runVars, capVars,
                         concerns, locks, pureVars>>
    \/ \E t \in Callers : SetMutedWrite(t)
          /\ UNCHANGED <<playVars, volume, source, volume_notify, pause_notify,
                         volPermit, audio_capture, adsrVars, runVars, capVars,
                         concerns, locks, pureVars>>
    \/ \E t \in Callers : CallerNotify(t)
          /\ UNCHANGED <<playVars, volume, source, volume_notify, pause_notify,
                         volPermit, audio_capture, adsrVars, runVars, capVars,
                         concerns, locks, pureVars>>

SpecCallers == InitCallers /\ [][NextCallers]_vars

\* The engine task and two other tasks call the functions that take the
\* store's locks, in any interleaving.
otherThanLocks ==
    <<playVars, storeVars, adsrVars, runVars, callers, pausedLock, muteLog, concerns,
      capVars, pureVars>>

InitLocks ==
    /\ InitStore /\ InitPlay /\ NoAdsr /\ NoRun /\ NoTap /\ NoPure
    /\ callers = <<>>
    /\ pausedLock = 0
    /\ muteLog = [op |-> "new", before |-> FALSE, expect |-> FALSE]
    /\ concerns = FreeConcerns
    /\ locks = [FreeLocks EXCEPT !.task = [t \in LockTasks |-> IdleTask]]

\* The steps of a started call of task t.
LockRun(t) ==
    \/ LockRequest(t) /\ UNCHANGED otherThanLocks
    \/ LockGrant(t) /\ UNCHANGED otherThanLocks
    \/ LockRelease(t) /\ UNCHANGED otherThanLocks

NextLocks ==
    \/ \E t \in LockTasks : \E op \in OpsOf(t) : LockStart(t, op) /\ UNCHANGED otherThanLocks
    \/ \E t \in LockTasks : LockRequest(t) /\ UNCHANGED otherThanLocks
    \/ \E t \in LockTasks : LockGrant(t) /\ UNCHANGED otherThanLocks
    \/ \E t \in LockTasks : LockRelease(t) /\ UNCHANGED otherThanLocks

SpecLocks == InitLocks /\ [][NextLocks]_vars

\* The runtime schedules every task that can run.
FairSpecLocks == SpecLocks /\ \A t \in LockTasks : WF_vars(LockRun(t))

\* Three tasks call the writers of the volume, the source and the mute flag
\* and the readers get_volume and is_muted, in any interleaving.
InitConcerns ==
    /\ InitStore /\ InitPlay /\ NoAdsr /\ NoRun /\ NoTap /\ NoPure
    /\ callers = [t \in ConcernTasks |-> [pc |-> "idle", seen |-> FALSE, ret |-> FALSE]]
    /\ pausedLock = 0
    /\ muteLog = [op |-> "new", before |-> FALSE, expect |-> FALSE]
    /\ concerns = FreeConcerns
    /\ locks = FreeLocks

NextConcerns ==
    \/ \E t \in ConcernTasks : \E muted \in BOOLEAN : SetMutedLock(t, muted)
          /\ UNCHANGED <<playVars, volume, source, volume_notify, pause_notify,
                         volPermit, audio_capture, adsrVars, runVars, capVars,
                         concerns, locks, pureVars>>
    \/ \E t \in ConcernTasks : SetMutedWrite(t)
          /\ UNCHANGED <<playVars, volume, source, volume_notify, pause_notify,
                         volPermit, audio_capture, adsrVars, runVars, capVars,
                         concerns, locks, pureVars>>
    \/ \E t \in ConcernTasks : CallerNotify(t)
          /\ UNCHANGED <<playVars, volume, source, volume_notify, pause_notify,
                         volPermit, audio_capture, adsrVars, runVars, capVars,
                         concerns, locks, pureVars>>
    \/ \E t \in ConcernTasks : SetVolumeLock(t) /\ UNCHANGED otherThanConcerns
    \/ \E t \in ConcernTasks : \E vol \in CallerVolumes :
          SetVolumeWrite(t, vol) /\ UNCHANGED otherThanConcerns
    \/ \E t \in ConcernTasks : SetVolumeNotify(t) /\ UNCHANGED otherThanConcerns
    \/ \E t \in ConcernTasks : SetSourceLock(t) /\ UNCHANGED otherThanConcerns
    \/ \E t \in ConcernTasks : \E new_source \in CallerSources :
          SetSourceWrite(t, new_source) /\ UNCHANGED otherThanConcerns
    \/ \E t \in ConcernTasks : GetVolume(t) /\ UNCHANGED otherThanConcerns
    \/ \E t \in ConcernTasks : IsMuted(t) /\ UNCHANGED otherThanConcerns

SpecConcerns == InitConcerns /\ [][NextConcerns]_vars

\* ------------------------------------------------- the capture and its taps
\* A capture as Play::new builds it (sample rate aside), one tap per voice
\* over a source of one or two channels, and the visualizer reading.
InitTap ==
    /\ InitStore /\ InitPlay /\ NoAdsr /\ NoRun /\ NoCallers /\ NoPure
    /\ \E rate \in CaptureRates :
          buffer = AudioCaptureNew(CaptureChannels, BufferSize, rate)
    /\ taps \in [Taps -> {create_tap_source(c) : c \in TapChannels}]
    /\ reader = [res |-> {}, at |-> 0, reads |-> 0, rate |-> 0]

NextTap ==
    \/ \E t \in Taps : TapNext(t)
          /\ UNCHANGED <<playVars, storeVars, adsrVars, runVars, lockVars, pureVars>>
    \/ GetData /\ UNCHANGED <<playVars, storeVars, adsrVars, runVars, lockVars, pureVars>>
    \/ GetSampleRate /\ UNCHANGED <<playVars, storeVars, adsrVars, runVars, lockVars, pureVars>>

SpecTap == InitTap /\ [][NextTap]_vars

\* The same capture with TapSource::next in its steps: the threads of the
\* audio backend and the visualizer interleave between them.
NextTapSteps ==
    \/ \E t \in Taps : TapPull(t)
          /\ UNCHANGED <<playVars, storeVars, adsrVars, runVars, lockVars, pureVars>>
    \/ \E t \in Taps : TapLockLen(t)
          /\ UNCHANGED <<playVars, storeVars, adsrVars, runVars, lockVars, pureVars>>
    \/ \E t \in Taps : TapReadLen(t)
          /\ UNCHANGED <<playVars, storeVars, adsrVars, runVars, lockVars, pureVars>>
    \/ \E t \in Taps : TapLockReplace(t)
          /\ UNCHANGED <<playVars, storeVars, adsrVars, runVars, lockVars, pureVars>>
    \/ \E t \in Taps : TapReplace(t)
          /\ UNCHANGED <<playVars, storeVars, adsrVars, runVars, lockVars, pureVars>>
    \/ GetData /\ UNCHANGED <<playVars, storeVars, adsrVars, runVars, lockVars, pureVars>>
    \/ GetSampleRate /\ UNCHANGED <<playVars, storeVars, adsrVars, runVars, lockVars, pureVars>>

SpecTapSteps == InitTap /\ [][NextTapSteps]_vars

\* The same, with a holder of the buffer's guard that may panic.
NextTapFault ==
    \/ NextTap
    \/ Poison /\ UNCHANGED <<playVars, storeVars, adsrVars, runVars, lockVars, pureVars>>

SpecTapFault == InitTap /\ [][NextTapFault]_vars

\* ------------------------------------------------------------- fx/adsr.rs
\* The envelope parameters of the model, in tenths of a second and tenths of
\* full amplitude, and the sample rates.
AdsrTimes == {0, 1, 2}
SustainLevels == {5}
SampleRates == {5, 10}

\* (s * sr) as u64, without the round: the fraction is cut off.
TruncTenths(t, sr) == (t * sr) \div 10

\* (s * sr).round() as u64 for s >= 0 in tenths of a second: f32::round
\* rounds half away from zero.
RoundTenths(t, sr) == (2 * t * sr + 10) \div 20

\* f32::max(0.0): the other operand when one is NaN.
Max0(t) == IF t = NaN \/ t < 0 THEN 0 ELSE t

\* AdsrSource::stage_len_samples
stage_len_samples(a, stage) ==
    LET s == CASE stage = "Attack" -> Max0(a.adsr.attack_s)
               [] stage = "Decay" -> Max0(a.adsr.decay_s)
               [] stage = "Release" -> Max0(a.adsr.release_s)
               [] OTHER -> 0
    IN RoundTenths(s, a.sample_rate)

\* AdsrSource::new
AdsrNew(adsr, sr) ==
    [adsr |-> adsr, sample_rate |-> sr, stage |-> "Attack", stage_pos |-> 0,
     current_amp |-> 0, release_start_amp |-> 0]

\* AdsrSource::step_envelope: the struct after the call and the amplitude
\* returned. The function reads neither the gate nor the stage and writes no
\* field.
step_envelope(a, g) == [self |-> a, env |-> 0]

\* <AdsrSource as Iterator>::next
AdsrSourceNext ==
    /\ pulls.calls < MaxSamples
    /\ IF adsrSource.stage = "Done"
       THEN /\ pulls' = [pulls EXCEPT !.calls = @ + 1, !.out = None]
            /\ UNCHANGED <<adsrSource, input>>
       ELSE \E xs \in {{}} \cup {{x} : x \in InputSamples} :
            /\ input = "ended" => xs = {}
            /\ IF xs = {}
               THEN /\ input' = "ended"
                    /\ pulls' = [pulls EXCEPT !.calls = @ + 1, !.out = None]
                    /\ UNCHANGED adsrSource
               ELSE LET x == CHOOSE s \in xs : TRUE
                        r == step_envelope(adsrSource, gate)
                        y == (x * r.env) \div VolOne
                    IN /\ adsrSource' = r.self
                       /\ input' = input
                       /\ pulls' = [pulls EXCEPT
                             !.calls = @ + 1,
                             !.pulled = @ + 1,
                             !.out = IF r.self.stage = "Done" THEN None ELSE "Some",
                             !.y = y]
    /\ UNCHANGED gate

\* The holder of the Gate stores false: the key is released.
CloseGate ==
    /\ gate
    /\ gate' = FALSE
    /\ pulls' = [pulls EXCEPT !.closedAt = pulls.calls]
    /\ UNCHANGED <<adsrSource, input>>

\* An envelope stream right after AdsrNode::apply, for any parameters.
InitAdsr ==
    /\ InitStore /\ InitPlay /\ NoRun /\ NoCallers /\ NoTap /\ NoPure
    /\ \E at, dt, rt \in AdsrTimes, su \in SustainLevels, sr \in SampleRates :
         adsrSource = AdsrNew([attack_s |-> at, decay_s |-> dt, sustain |-> su,
                               release_s |-> rt], sr)
    /\ gate = TRUE
    /\ input = "live"
    /\ pulls = [calls |-> 0, closedAt |-> -1, pulled |-> 0, out |-> "-", y |-> 0]

NextAdsr ==
    \/ AdsrSourceNext /\ UNCHANGED <<playVars, storeVars, runVars, lockVars, capVars, pureVars>>
    \/ CloseGate /\ UNCHANGED <<playVars, storeVars, runVars, lockVars, capVars, pureVars>>

SpecAdsr == InitAdsr /\ [][NextAdsr]_vars

\* ------------------------------------------------------ play.rs: run_audio
\* now.contains(Escape) || (now.contains(C) && now.contains(LControl))
StopCombo(now) == "Escape" \in now \/ ("C" \in now /\ "LControl" \in now)

\* The messages of the channel: None (the terminal stop event) and
\* Some((now, prev)).
StopMsg == [stop |-> TRUE, now |-> {}, prev |-> {}]
KeysMsg(now, before) == [stop |-> FALSE, now |-> now, prev |-> before]

\* The select loop is running (the notification handles are registered).
Running == enginePc \in {"loop", "handling"}

\* rx is dropped once run_audio has returned.
RxDropped == enginePc \in {"done", "failed"}

\* The sets of keys DeviceState::get_keys may report on a tick of a keyboard.
HeldSets(keys) == {s \in SUBSET keys : Cardinality(s) <= MaxHeld}

\* The interrupt signal is delivered to the process (the handler is
\* installed by ctrl_c() before the loop).
Interrupt ==
    /\ Running
    /\ ~sigint
    /\ sigint' = TRUE
    /\ UNCHANGED <<pollPc, pollExit, prev, chan, enginePc, todo, shutdown, exitBy, writer, dirty>>
    /\ UNCHANGED <<playVars, storeVars, adsrVars, lockVars, capVars, pureVars>>

\* tx.send on the unbounded channel: an error once rx is dropped. A message
\* sent after the select loop has ended is never received and is left out.
Send(m) == IF enginePc \in {"start", "loop", "handling"} THEN Append(chan, m) ELSE chan

\* A tick of a polling task that sends the stop event and keeps polling (no
\* `break` after tx.send(None)).
PollerTickNoBreak(now) ==
    /\ pollPc = "run"
    /\ IF StopCombo(now)
       THEN /\ Len(chan) < MaxChan
            /\ chan' = (IF RxDropped THEN chan ELSE Send(StopMsg))
            /\ UNCHANGED <<pollPc, pollExit, prev>>
       ELSE /\ now # prev
            /\ IF RxDropped
               THEN /\ pollPc' = "done"
                    /\ pollExit' = "err"
                    /\ UNCHANGED <<chan, prev>>
               ELSE /\ Len(chan) < MaxChan
                    /\ chan' = Send(KeysMsg(now, prev))
                    /\ prev' = now
                    /\ UNCHANGED <<pollPc, pollExit>>
    /\ UNCHANGED <<enginePc, todo, sigint, shutdown, exitBy, writer, dirty>>
    /\ UNCHANGED <<playVars, storeVars, adsrVars, lockVars, capVars, pureVars>>

\* One tick of the polling task, which reads the held keys `now`. It sends or
\* ends the task (a tick with now = prev and no stop combination changes
\* nothing).
PollerTick(now) ==
    /\ pollPc = "run"
    /\ IF StopCombo(now)
       THEN /\ chan' = (IF RxDropped THEN chan ELSE Send(StopMsg))
            /\ pollPc' = "done"
            /\ pollExit' = "stop"
            /\ UNCHANGED prev
       ELSE /\ now # prev
            /\ IF RxDropped
               THEN /\ pollPc' = "done"
                    /\ pollExit' = "err"
                    /\ UNCHANGED <<chan, prev>>
               ELSE /\ Len(chan) < MaxChan
                    /\ chan' = Send(KeysMsg(now, prev))
                    /\ prev' = now
                    /\ UNCHANGED <<pollPc, pollExit>>
    /\ UNCHANGED <<enginePc, todo, sigint, shutdown, exitBy, writer, dirty>>
    /\ UNCHANGED <<playVars, storeVars, adsrVars, lockVars, capVars, pureVars>>

\* The polling task panics (DeviceState::new or get_keys fails): the task
\* ends and tx is dropped without a stop event.
PollerAbort ==
    /\ pollPc = "run"
    /\ pollPc' = "done"
    /\ pollExit' = "panic"
    /\ UNCHANGED <<prev, chan, enginePc, todo, sigint, shutdown, exitBy, writer, dirty>>
    /\ UNCHANGED <<playVars, storeVars, adsrVars, lockVars, capVars, pureVars>>

\* A run_audio that registers the handles and then fails to open the output.
EngineStartFailRegistered ==
    /\ enginePc = "start"
    /\ enginePc' = "failed"
    /\ volume_notify' = "Some"
    /\ pause_notify' = "Some"
    /\ audio_capture' = "Some"
    /\ UNCHANGED <<volume, paused, source, volPermit, pausePermit>>
    /\ UNCHANGED <<pollPc, pollExit, prev, chan, todo, sigint, shutdown, exitBy, writer, dirty>>
    /\ UNCHANGED <<playVars, adsrVars, lockVars, capVars, pureVars>>

\* Play::new fails (no output device): run_audio returns the error.
EngineStartFail ==
    /\ enginePc = "start"
    /\ enginePc' = "failed"
    /\ UNCHANGED <<pollPc, pollExit, prev, chan, todo, sigint, shutdown, exitBy, writer, dirty>>
    /\ UNCHANGED <<playVars, storeVars, adsrVars, lockVars, capVars, pureVars>>

\* Play::new succeeds; the notification handles are registered in the store.
EngineStart ==
    /\ enginePc = "start"
    /\ enginePc' = "loop"
    /\ volume_notify' = "Some"
    /\ pause_notify' = "Some"
    /\ audio_capture' = "Some"
    /\ UNCHANGED <<volume, paused, source, volPermit, pausePermit>>
    /\ UNCHANGED <<pollPc, pollExit, prev, chan, todo, sigint, shutdown, exitBy, writer, dirty>>
    /\ UNCHANGED <<playVars, adsrVars, lockVars, capVars, pureVars>>

\* select!: the ctrl_c branch.
EngineCtrlC ==
    /\ enginePc = "loop"
    /\ sigint
    /\ shutdown' = TRUE
    /\ enginePc' = "stopping"
    /\ exitBy' = "ctrl_c"
    /\ UNCHANGED <<pollPc, pollExit, prev, chan, todo, sigint, writer, dirty>>
    /\ UNCHANGED <<playVars, storeVars, adsrVars, lockVars, capVars, pureVars>>

\* A receive that plays every held key of the message, not only the keys
\* that went down since the previous message.
EngineRecvAllHeld ==
    /\ enginePc = "loop"
    /\ chan # <<>>
    /\ chan' = Tail(chan)
    /\ LET m == Head(chan) IN
       IF m.stop
       THEN /\ enginePc' = "stopping"
            /\ exitBy' = "stop"
            /\ UNCHANGED todo
       ELSE /\ todo' = [todo EXCEPT !.down = m.now, !.up = m.prev \ m.now]
            /\ enginePc' = "handling"
            /\ UNCHANGED exitBy
    /\ UNCHANGED <<pollPc, pollExit, prev, sigint, shutdown, writer, dirty>>
    /\ UNCHANGED <<playVars, storeVars, adsrVars, lockVars, capVars, pureVars>>

\* select!: rx.recv() yields a message.
EngineRecv ==
    /\ enginePc = "loop"
    /\ chan # <<>>
    /\ chan' = Tail(chan)
    /\ LET m == Head(chan) IN
       IF m.stop
       THEN /\ enginePc' = "stopping"
            /\ exitBy' = "stop"
            /\ UNCHANGED todo
       ELSE /\ todo' = [todo EXCEPT !.down = m.now \ m.prev, !.up = m.prev \ m.now]
            /\ enginePc' = "handling"
            /\ UNCHANGED exitBy
    /\ UNCHANGED <<pollPc, pollExit, prev, sigint, shutdown, writer, dirty>>
    /\ UNCHANGED <<playVars, storeVars, adsrVars, lockVars, capVars, pureVars>>

\* select!: rx.recv() yields None, the channel being empty and tx dropped.
EngineRecvClosed ==
    /\ enginePc = "loop"
    /\ chan = <<>>
    /\ pollPc = "done"
    /\ enginePc' = "stopping"
    /\ exitBy' = "closed"
    /\ UNCHANGED <<pollPc, pollExit, prev, chan, todo, sigint, shutdown, writer, dirty>>
    /\ UNCHANGED <<playVars, storeVars, adsrVars, lockVars, capVars, pureVars>>

\* The pc after one key of the message is handled.
AfterKey(down, up) == IF down = {} /\ up = {} THEN "loop" ELSE "handling"

\* for k in now.difference(&prev) { audio.play_note(*k).await }
EnginePlayNote(k) ==
    /\ enginePc = "handling"
    /\ k \in todo.down
    /\ PlayNote(k)
    /\ todo' = [todo EXCEPT !.down = @ \ {k}, !.held = @ \cup {k}]
    /\ enginePc' = AfterKey(todo.down \ {k}, todo.up)
    /\ UNCHANGED <<pollPc, pollExit, prev, chan, sigint, shutdown, exitBy, writer, dirty>>
    /\ UNCHANGED <<storeVars, adsrVars, lockVars, capVars, pureVars>>

\* for k in prev.difference(&now) { audio.stop_note(*k) }
EngineStopNote(k) ==
    /\ enginePc = "handling"
    /\ todo.down = {}
    /\ k \in todo.up
    /\ StopNote(k)
    /\ todo' = [todo EXCEPT !.up = @ \ {k}, !.held = @ \ {k}]
    /\ enginePc' = AfterKey({}, todo.up \ {k})
    /\ UNCHANGED <<pollPc, pollExit, prev, chan, sigint, shutdown, exitBy, writer, dirty>>
    /\ UNCHANGED <<storeVars, adsrVars, lockVars, capVars, pureVars>>

\* select!: the volume_notify.notified() branch; the permit is consumed.
EngineSyncVolume ==
    /\ enginePc = "loop"
    /\ volPermit
    /\ volPermit' = FALSE
    /\ SyncVolume
    /\ dirty' = dirty \ {"volume"}
    /\ UNCHANGED <<volume, paused, source, volume_notify, pause_notify, pausePermit, audio_capture>>
    /\ UNCHANGED <<pollPc, pollExit, prev, chan, enginePc, todo, sigint, shutdown, exitBy, writer>>
    /\ UNCHANGED <<adsrVars, lockVars, capVars, pureVars>>

\* select!: the pause_notify.notified() branch; the permit is consumed.
EngineSyncMuted ==
    /\ enginePc = "loop"
    /\ pausePermit
    /\ pausePermit' = FALSE
    /\ SyncMutedState
    /\ dirty' = dirty \ {"mute"}
    /\ UNCHANGED <<volume, paused, source, volume_notify, pause_notify, volPermit, audio_capture>>
    /\ UNCHANGED <<pollPc, pollExit, prev, chan, enginePc, todo, sigint, shutdown, exitBy, writer>>
    /\ UNCHANGED <<adsrVars, lockVars, capVars, pureVars>>

\* The loop has ended without the stop_all that follows it.
EngineStopAllSkipped ==
    /\ enginePc = "stopping"
    /\ enginePc' = "join"
    /\ UNCHANGED <<pollPc, pollExit, prev, chan, todo, sigint, shutdown, exitBy, writer, dirty>>
    /\ UNCHANGED <<playVars, storeVars, adsrVars, lockVars, capVars, pureVars>>

\* audio.stop_all() after the loop.
EngineStopAll ==
    /\ enginePc = "stopping"
    /\ StopAll
    /\ enginePc' = "join"
    /\ UNCHANGED <<pollPc, pollExit, prev, chan, todo, sigint, shutdown, exitBy, writer, dirty>>
    /\ UNCHANGED <<storeVars, adsrVars, lockVars, capVars, pureVars>>

\* poll_handle.await completes once the polling task has ended; run_audio
\* returns and `audio` is dropped (Drop for Play: stop_all).
EngineJoin ==
    /\ enginePc = "join"
    /\ pollPc = "done"
    /\ StopAll
    /\ enginePc' = "done"
    /\ UNCHANGED <<pollPc, pollExit, prev, chan, todo, sigint, shutdown, exitBy, writer, dirty>>
    /\ UNCHANGED <<storeVars, adsrVars, lockVars, capVars, pureVars>>

\* set_volume up to the release of the write lock (the commit).
WriterCommitVolume(v) ==
    /\ writer = "idle"
    /\ volume' = clamp(v)
    /\ writer' = "volume"
    /\ dirty' = IF Running THEN dirty \cup {"volume"} ELSE dirty
    /\ UNCHANGED <<paused, source, volume_notify, pause_notify, volPermit, pausePermit, audio_capture>>
    /\ UNCHANGED <<pollPc, pollExit, prev, chan, enginePc, todo, sigint, shutdown, exitBy>>
    /\ UNCHANGED <<playVars, adsrVars, lockVars, capVars, pureVars>>

\* set_muted (toggle = FALSE) or toggle_muted (toggle = TRUE) up to the
\* release of the write lock.
WriterCommitMute(toggle, p) ==
    /\ writer = "idle"
    /\ paused' = IF toggle THEN ~paused ELSE p
    /\ writer' = "mute"
    /\ dirty' = IF Running THEN dirty \cup {"mute"} ELSE dirty
    /\ UNCHANGED <<volume, source, volume_notify, pause_notify, volPermit, pausePermit, audio_capture>>
    /\ UNCHANGED <<pollPc, pollExit, prev, chan, enginePc, todo, sigint, shutdown, exitBy>>
    /\ UNCHANGED <<playVars, adsrVars, lockVars, capVars, pureVars>>

\* A writer that returns after its commit without notifying.
WriterNotifyForgotten ==
    /\ writer # "idle"
    /\ writer' = "idle"
    /\ UNCHANGED <<pollPc, pollExit, prev, chan, enginePc, todo, sigint, shutdown, exitBy, dirty>>
    /\ UNCHANGED <<playVars, storeVars, adsrVars, lockVars, capVars, pureVars>>

\* The rest of set_volume, set_muted and toggle_muted: notify_one on the
\* registered handle of the concern.
WriterNotify ==
    /\ writer # "idle"
    /\ writer' = "idle"
    /\ IF writer = "volume"
       THEN /\ volPermit' = notify_one(volume_notify, volPermit)
            /\ UNCHANGED pausePermit
       ELSE /\ pausePermit' = notify_one(pause_notify, pausePermit)
            /\ UNCHANGED volPermit
    /\ UNCHANGED <<volume, paused, source, volume_notify, pause_notify, audio_capture>>
    /\ UNCHANGED <<pollPc, pollExit, prev, chan, enginePc, todo, sigint, shutdown, exitBy, dirty>>
    /\ UNCHANGED <<playVars, adsrVars, lockVars, capVars, pureVars>>

\* ---- the engine's calls await by await: the writers' tasks run between
\* the awaits of play_note, sync_volume and sync_muted_state.
\*
\* play_note up to `state::get_volume().await`: the early returns, or the
\* reads of the source and of the volume.
EnginePlayReadVolume(k) ==
    /\ enginePc = "handling"
    /\ todo.note.pc = "-"
    /\ k \in todo.down
    /\ IF k \in DOMAIN active_sinks \/ from_keycode(k) = {}
       THEN /\ PlayNote(k)
            /\ todo' = [todo EXCEPT !.down = @ \ {k}, !.held = @ \cup {k}]
            /\ enginePc' = AfterKey(todo.down \ {k}, todo.up)
       ELSE /\ todo' = [todo EXCEPT !.note = [pc |-> "is_muted", key |-> k, volume |-> volume,
                                              paused |-> FALSE, wave |-> source,
                                              raced |-> FALSE]]
            /\ UNCHANGED <<playVars, enginePc>>
    /\ UNCHANGED <<pollPc, pollExit, prev, chan, sigint, shutdown, exitBy, writer, dirty>>
    /\ UNCHANGED <<storeVars, adsrVars, lockVars, capVars, pureVars>>

\* play_note: `state::is_muted().await`.
EnginePlayReadMuted ==
    /\ enginePc = "handling"
    /\ todo.note.pc = "is_muted"
    /\ todo' = [todo EXCEPT !.note.pc = "insert", !.note.paused = paused]
    /\ UNCHANGED <<pollPc, pollExit, prev, chan, enginePc, sigint, shutdown, exitBy, writer,
                   dirty>>
    /\ UNCHANGED <<playVars, storeVars, adsrVars, lockVars, capVars, pureVars>>

\* play_note: the sink at the volume read, paused if the store was read
\* muted, appended and inserted into active_sinks.
EnginePlayInsert ==
    LET n == todo.note
        k == n.key
    IN
    /\ enginePc = "handling"
    /\ n.pc = "insert"
    /\ FreeSinks # {}
    /\ last' = Call("play_note", k)
    /\ LET id == MinOf(FreeSinks)
       IN /\ active_sinks' = MapInsert(active_sinks, k,
                                [NewSink(id, KeyOf(k)) EXCEPT !.volume = n.volume,
                                                              !.paused = n.paused,
                                                              !.wave = n.wave])
          /\ mixer' = mixer \cup {id}
    /\ todo' = [todo EXCEPT !.down = @ \ {k}, !.held = @ \cup {k},
                            !.note = [IdleNote EXCEPT
                                        !.key = k,
                                        !.raced = n.volume # volume \/ n.paused # paused]]
    /\ enginePc' = AfterKey(todo.down \ {k}, todo.up)
    /\ UNCHANGED <<pollPc, pollExit, prev, chan, sigint, shutdown, exitBy, writer, dirty>>
    /\ UNCHANGED <<storeVars, adsrVars, lockVars, capVars, pureVars>>

\* select!: the volume_notify.notified() branch, which consumes the permit,
\* and sync_volume's `state::get_volume().await`.
EngineSyncVolumeRead ==
    /\ enginePc = "loop"
    /\ volPermit
    /\ volPermit' = FALSE
    /\ enginePc' = "handling"
    /\ todo' = [todo EXCEPT !.note.pc = "sync_volume", !.note.volume = volume]
    /\ dirty' = dirty \ {"volume"}
    /\ UNCHANGED <<volume, paused, source, volume_notify, pause_notify, pausePermit, audio_capture>>
    /\ UNCHANGED <<pollPc, pollExit, prev, chan, sigint, shutdown, exitBy, writer>>
    /\ UNCHANGED <<playVars, adsrVars, lockVars, capVars, pureVars>>

\* A sync_volume whose permit is consumed when the sinks are set, after the
\* read of the volume.
EngineSyncVolumeApplyLate ==
    /\ enginePc = "handling"
    /\ todo.note.pc = "sync_volume"
    /\ last' = [Call("sync_volume", None) EXCEPT
                   !.had = \E k \in DOMAIN active_sinks :
                              active_sinks[k].volume # todo.note.volume]
    /\ active_sinks' = [k \in DOMAIN active_sinks |->
                          [active_sinks[k] EXCEPT !.volume = todo.note.volume]]
    /\ todo' = [todo EXCEPT !.note.pc = "-"]
    /\ enginePc' = "loop"
    /\ volPermit' = FALSE
    /\ UNCHANGED <<volume, paused, source, volume_notify, pause_notify, pausePermit, audio_capture>>
    /\ UNCHANGED <<mixer, pollPc, pollExit, prev, chan, sigint, shutdown, exitBy, writer, dirty>>
    /\ UNCHANGED <<adsrVars, lockVars, capVars, pureVars>>

\* sync_volume: every sink is set to the volume read.
EngineSyncVolumeApply ==
    /\ enginePc = "handling"
    /\ todo.note.pc = "sync_volume"
    /\ last' = [Call("sync_volume", None) EXCEPT
                   !.had = \E k \in DOMAIN active_sinks :
                              active_sinks[k].volume # todo.note.volume]
    /\ active_sinks' = [k \in DOMAIN active_sinks |->
                          [active_sinks[k] EXCEPT !.volume = todo.note.volume]]
    /\ todo' = [todo EXCEPT !.note.pc = "-"]
    /\ enginePc' = "loop"
    /\ UNCHANGED <<mixer, pollPc, pollExit, prev, chan, sigint, shutdown, exitBy, writer, dirty>>
    /\ UNCHANGED <<storeVars, adsrVars, lockVars, capVars, pureVars>>

\* select!: the pause_notify.notified() branch, which consumes the permit,
\* and sync_muted_state's `state::is_muted().await`.
EngineSyncMutedRead ==
    /\ enginePc = "loop"
    /\ pausePermit
    /\ pausePermit' = FALSE
    /\ enginePc' = "handling"
    /\ todo' = [todo EXCEPT !.note.pc = "sync_muted_state", !.note.paused = paused]
    /\ dirty' = dirty \ {"mute"}
    /\ UNCHANGED <<volume, paused, source, volume_notify, pause_notify, volPermit, audio_capture>>
    /\ UNCHANGED <<pollPc, pollExit, prev, chan, sigint, shutdown, exitBy, writer>>
    /\ UNCHANGED <<playVars, adsrVars, lockVars, capVars, pureVars>>

\* sync_muted_state: every sink is paused, or every sink is resumed.
EngineSyncMutedApply ==
    /\ enginePc = "handling"
    /\ todo.note.pc = "sync_muted_state"
    /\ last' = [Call("sync_muted_state", None) EXCEPT
                   !.had = \E k \in DOMAIN active_sinks :
                              active_sinks[k].paused # todo.note.paused]
    /\ active_sinks' = [k \in DOMAIN active_sinks |->
                          [active_sinks[k] EXCEPT !.paused = todo.note.paused]]
    /\ todo' = [todo EXCEPT !.note.pc = "-"]
    /\ enginePc' = "loop"
    /\ UNCHANGED <<mixer, pollPc, pollExit, prev, chan, sigint, shutdown, exitBy, writer, dirty>>
    /\ UNCHANGED <<storeVars, adsrVars, lockVars, capVars, pureVars>>

\* run_audio has spawned the polling task and is about to build Play.
InitRun ==
    /\ InitStore /\ InitPlay /\ NoAdsr /\ NoCallers /\ NoTap /\ NoPure
    /\ pollPc = "run"
    /\ pollExit = "-"
    /\ prev = {}
    /\ chan = <<>>
    /\ enginePc = "start"
    /\ todo = [down |-> {}, up |-> {}, held |-> {}, note |-> IdleNote]
    /\ sigint = FALSE
    /\ shutdown = FALSE
    /\ exitBy = "-"
    /\ writer = "idle"
    /\ dirty = {}

\* The steps of the engine task but the notified branches of its select.
EngineNext ==
    \/ EngineStart
    \/ EngineStartFail
    \/ EngineCtrlC
    \/ EngineRecv
    \/ EngineRecvClosed
    \/ \E k \in Keycodes : EnginePlayNote(k)
    \/ \E k \in Keycodes : EngineStopNote(k)
    \/ EngineStopAll
    \/ EngineJoin

\* The polling task on the model's keyboard.
Poller == \E now \in HeldSets(Keycodes) : PollerTick(now)

\* run_audio while nothing writes the settings (no notified branch is ever
\* ready).
NextRun ==
    \/ Interrupt
    \/ Poller
    \/ PollerAbort
    \/ EngineNext

SpecRun == InitRun /\ [][NextRun]_vars

\* The engine task and the polling task are scheduled fairly (and the held
\* keys keep changing, so that the polling task keeps sending).
FairSpecRun == SpecRun /\ WF_vars(EngineNext) /\ WF_vars(Poller)

\* The polling task on a keyboard of one key of the layout and Escape.
PollerSync == \E now \in HeldSets(SyncKeys) : PollerTick(now)

\* run_audio while the settings are written.
NextSync ==
    \/ Interrupt
    \/ PollerSync
    \/ PollerAbort
    \/ EngineNext
    \/ EngineSyncVolume
    \/ EngineSyncMuted
    \/ \E v \in RunVolInputs : WriterCommitVolume(v)
    \/ \E p \in BOOLEAN : WriterCommitMute(FALSE, p)
    \/ WriterCommitMute(TRUE, FALSE)
    \/ WriterNotify

SpecSync == InitRun /\ [][NextSync]_vars

\* The tasks are scheduled fairly: the engine task and a started writer run
\* on; select! picks among its ready branches at random, so a branch that is
\* ready again and again is taken.
FairSpecSync ==
    /\ SpecSync
    /\ WF_vars(EngineNext)
    /\ WF_vars(WriterNotify)
    /\ SF_vars(EngineSyncVolume)
    /\ SF_vars(EngineSyncMuted)

\* run_audio while the settings are written, with the engine's calls taken
\* await by await.
NextQuiet ==
    \/ Interrupt
    \/ PollerSync
    \/ PollerAbort
    \/ EngineStart
    \/ EngineStartFail
    \/ EngineCtrlC
    \/ EngineRecv
    \/ EngineRecvClosed
    \/ \E k \in Keycodes : EnginePlayReadVolume(k)
    \/ EnginePlayReadMuted
    \/ EnginePlayInsert
    \/ \E k \in Keycodes : EngineStopNote(k)
    \/ EngineSyncVolumeRead
    \/ EngineSyncVolumeApply
    \/ EngineSyncMutedRead
    \/ EngineSyncMutedApply
    \/ EngineStopAll
    \/ EngineJoin
    \/ \E v \in RunVolInputs : WriterCommitVolume(v)
    \/ \E p \in BOOLEAN : WriterCommitMute(FALSE, p)
    \/ WriterCommitMute(TRUE, FALSE)
    \/ WriterNotify

SpecQuiet == InitRun /\ [][NextQuiet]_vars

\* ------------------------------------------------- claims on the voice manager
\* The sinks of the map are exactly the sinks the mixer plays, one per key.
OneSinkPerKey ==
    /\ mixer = {active_sinks[k].id : k \in DOMAIN active_sinks}
    /\ \A j, k \in DOMAIN active_sinks : active_sinks[j].id = active_sinks[k].id => j = k

\* C1: play_note for a key that already has a voice changes neither the voice
\* map nor the existing voice nor what the mixer plays, and after it the key
\* has exactly one voice.
C1_PlayNoteIdempotent ==
    /\ [][(last'.op = "play_note" /\ last'.had)
            => (active_sinks' = active_sinks /\ mixer' = mixer)]_vars
    /\ []((last.op = "play_note" /\ last.had)
            => (last.key \in DOMAIN active_sinks /\ OneSinkPerKey))

\* C1's case: play_note was called for a key whose voice was built under
\* other settings than the store's present ones, and the voice is as it was.
C1_Witness ==
    /\ last.op = "play_note"
    /\ last.had
    /\ active_sinks[last.key].volume # volume
    /\ active_sinks[last.key].wave # source

\* C2 as stated: right after stop_note for a key with a live voice, the voice
\* is still recorded by the manager.
C2_VoiceKeptAfterStopNote ==
    [][(last'.op = "stop_note" /\ last'.had)
         => last'.key \in DOMAIN active_sinks']_vars

\* C3: stop_note for a key without a voice changes neither the voice map nor
\* any voice nor what the mixer plays, and it is no fault.
C3_StopNoteMissingIsNoOp ==
    /\ [][(last'.op \in {"stop_note", "panic"} /\ ~last'.had)
            => (active_sinks' = active_sinks /\ mixer' = mixer)]_vars
    /\ [](last.op # "panic")

\* C3's case: stop_note was called for a key of the layout that has no voice
\* while another key has one.
C3_Witness ==
    /\ last.op = "stop_note"
    /\ ~last.had
    /\ from_keycode(last.key) # {}
    /\ DOMAIN active_sinks # {}

\* C7: after stop_all the manager holds no voice and the mixer plays none of
\* its sinks, however many voices there were; a stop_all with no voice
\* changes nothing.
C7_StopAllDiscardsEveryVoice ==
    /\ [](last.op = "stop_all" => (DOMAIN active_sinks = {} /\ mixer = {}))
    /\ [][(last'.op = "stop_all" /\ last'.n = 0)
            => (active_sinks' = active_sinks /\ mixer' = mixer)]_vars

\* C7's case: stop_all was called with two voices alive.
C7_Witness ==
    /\ last.op = "stop_all"
    /\ last.n = 2
    /\ DOMAIN active_sinks = {}

\* --------------------------------------------------- claims on the envelope
\* The number of next() calls made since the gate closed.
SinceClose == pulls.calls - pulls.closedAt

\* C4 as stated: once the gate is closed the envelope is in Release (or past
\* it) from the next generated sample on, and once round(release_s *
\* sample_rate) further samples were generated it is Done and next has
\* returned None.
C4_GateCloseReleasesThenDone ==
    (pulls.closedAt >= 0 /\ input = "live" /\ SinceClose >= 1)
      => /\ adsrSource.stage \in {"Release", "Done"}
         /\ SinceClose > 1 + stage_len_samples(adsrSource, "Release")
              => (adsrSource.stage = "Done" /\ pulls.out = None)

\* C5 as stated: with the gate open the envelope has left Attack once the
\* attack length was generated, is in Sustain once the decay length was
\* generated too, and is never in Release or Done.
C5_OpenGateAttackDecaySustain ==
    (gate /\ input = "live")
      => /\ adsrSource.stage \notin {"Release", "Done"}
         /\ pulls.calls > stage_len_samples(adsrSource, "Attack")
              => adsrSource.stage \in {"Decay", "Sustain"}
         /\ pulls.calls > stage_len_samples(adsrSource, "Attack")
                            + stage_len_samples(adsrSource, "Decay")
              => adsrSource.stage = "Sustain"

\* ------------------------------------------------------ claims on run_audio
\* C8: once the select loop has ended, by the interrupt, by the stop event or
\* by the channel closing, no voice is created any more, and from the
\* stop_all after the loop on the manager holds no voice and the mixer plays
\* none.
C8_NoVoiceSurvivesShutdown ==
    /\ [](enginePc \in {"join", "done"} => (DOMAIN active_sinks = {} /\ mixer = {}))
    /\ [](exitBy # "-" => enginePc \in {"stopping", "join", "done"})
    /\ [][exitBy # "-" => (DOMAIN active_sinks' \subseteq DOMAIN active_sinks)]_vars

\* C8's case: the loop ended because the channel closed while two voices
\* were alive, and stop_all has run.
C8_Witness ==
    /\ enginePc = "join"
    /\ exitBy = "closed"
    /\ last.op = "stop_all"
    /\ last.n = 2

\* The same for the two other ways out of the loop.
C8_WitnessOtherExits ==
    \E e \in {"ctrl_c", "stop"} :
        enginePc = "join" /\ exitBy = e /\ last.op = "stop_all" /\ last.n = 2

\* C9 as stated: once the interrupt has ended the select loop, run_audio
\* returns.
C9_ShutdownTerminates == (exitBy = "ctrl_c") ~> (enginePc = "done")

\* C10: while the select loop runs, a committed volume or mute write is
\* followed by the engine's sync of that concern (unless the loop ends
\* first), and when no write of a concern is waiting for its sync every
\* voice has the stored value.
C10_NoNotificationLost ==
    /\ ("volume" \in dirty) ~> ("volume" \notin dirty \/ ~Running)
    /\ ("mute" \in dirty) ~> ("mute" \notin dirty \/ ~Running)
    /\ []((Running /\ "volume" \notin dirty)
            => \A k \in DOMAIN active_sinks : active_sinks[k].volume = volume)
    /\ []((Running /\ "mute" \notin dirty)
            => \A k \in DOMAIN active_sinks : active_sinks[k].paused = paused)

\* C10's case: a write was committed while a voice was alive and the engine
\* has run the sync, which changed that voice to the stored value.
C10_Witness ==
    /\ Running
    /\ last.op = "sync_volume"
    /\ last.had
    /\ dirty = {}
    /\ \E k \in DOMAIN active_sinks : active_sinks[k].volume = volume

\* C11: the stored volume is within [0,1] in every reachable state:
\* set_volume(v) stores 1.0 for every v above 1, 0.0 for every v below 0 and
\* v itself for every v within [0,1], whatever the sequence of set_volume
\* calls.
C11_VolumeWithinUnitRange ==
    /\ volume # NaN
    /\ ~fless(volume, 0)
    /\ ~fless(VolOne, volume)
    /\ last.op = "set_volume" =>
         /\ fless(VolOne, last.arg) => volume = VolOne
         /\ fless(last.arg, 0) => volume = 0
         /\ (last.arg # NaN /\ ~fless(last.arg, 0) /\ ~fless(VolOne, last.arg)) =>
              volume = last.arg

\* C13: set_source changes no existing voice, adds and removes none and
\* emits neither the volume-changed nor the mute-changed notification; a
\* voice that play_note creates plays the waveform the store holds then.
C13_SetSourceLeavesVoices ==
    [][/\ last'.op = "set_source" =>
            /\ active_sinks' = active_sinks
            /\ mixer' = mixer
            /\ volPermit' = volPermit
            /\ pausePermit' = pausePermit
       /\ (last'.op = "play_note" /\ ~last'.had /\ last'.key \in DOMAIN active_sinks') =>
            active_sinks'[last'.key].wave = source']_vars

\* set_source was called with the notify handles registered while a voice
\* of the previous waveform sounds, and no permit is stored.
C13_Witness ==
    /\ last.op = "set_source"
    /\ volume_notify = "Some"
    /\ pause_notify = "Some"
    /\ ~volPermit
    /\ ~pausePermit
    /\ \E k \in DOMAIN active_sinks : active_sinks[k].wave # source

\* C14: a voice created by play_note has the store's volume as read during
\* that call, is paused at creation exactly if the store is muted then, and
\* is recorded in the voice map under the triggering key.
C14_NewVoiceFollowsStore ==
    (last.op = "play_note" /\ ~last.had /\ from_keycode(last.key) # {}) =>
        /\ last.key \in DOMAIN active_sinks
        /\ active_sinks[last.key].key = KeyOf(last.key)
        /\ active_sinks[last.key].id \in mixer
        /\ active_sinks[last.key].volume = volume
        /\ active_sinks[last.key].paused = paused

\* play_note created a voice while the store was muted at half volume.
C14_Witness ==
    /\ last.op = "play_note"
    /\ ~last.had
    /\ last.key \in DOMAIN active_sinks
    /\ paused
    /\ volume = 5
    /\ active_sinks[last.key].paused

\* C15: sync_volume and sync_muted_state do not change which voices exist;
\* after sync_volume every live voice has the store's volume, after
\* sync_muted_state every live voice is paused exactly if the store is muted.
C15_SyncKeepsVoices ==
    [][last'.op \in {"sync_volume", "sync_muted_state"} =>
         /\ DOMAIN active_sinks' = DOMAIN active_sinks
         /\ mixer' = mixer
         /\ \A k \in DOMAIN active_sinks : active_sinks'[k].id = active_sinks[k].id
         /\ last'.op = "sync_volume" =>
              \A k \in DOMAIN active_sinks' : active_sinks'[k].volume = volume'
         /\ last'.op = "sync_muted_state" =>
              \A k \in DOMAIN active_sinks' : active_sinks'[k].paused = paused']_vars

\* sync_muted_state ran over two voices, one of them paused, with the store
\* unmuted.
C15_Witness ==
    /\ last.op = "sync_muted_state"
    /\ last.had
    /\ last.n >= 2
    /\ ~paused
    /\ \A k \in DOMAIN active_sinks : ~active_sinks[k].paused

\* C12: toggle_muted flips the mute flag atomically and returns the new
\* value: every toggle inverts the flag it finds, a toggle that follows a
\* toggle with no other mute write between them restores the flag, and with
\* any number of concurrent callers the flag is what the writes made so far
\* amount to (no flip is lost).
C12_ToggleMutedAtomic ==
    [][\A t \in Callers :
          (callers[t].pc = "flip" /\ callers'[t].pc = "notify") =>
              /\ paused' = ~paused
              /\ callers'[t].ret = paused'
              /\ muteLog.op = "toggle" => paused' = muteLog.before
              /\ paused' = muteLog'.expect]_vars

\* Two toggle_muted calls are in flight at once: one muted the store, the
\* other then unmuted it, and neither has returned yet.
C12_Witness ==
    \E t1, t2 \in Callers :
        /\ callers[t1].pc = "notify" /\ callers[t1].ret
        /\ callers[t2].pc = "notify" /\ ~callers[t2].ret
        /\ muteLog.op = "toggle"
        /\ muteLog.before
        /\ ~paused

\* A matrix whose rows all hold exactly BufferSize samples.
CompleteMatrix(m) == Len(m) >= 1 /\ \A c \in 1..Len(m) : Len(m[c]) = BufferSize

\* The matrices the reader can see: the buffer's and the one get_data
\* returned last.
Snapshots == {buffer.data} \cup reader.res

\* C16 (as stated): the snapshot get_data returns always has the shape of
\* the initial zero-filled buffer, the capture's channel count of rows, each
\* exactly buffer_size samples long.
C16_SnapshotKeepsInitialShape ==
    \A m \in Snapshots : Len(m) = CaptureChannels /\ CompleteMatrix(m)

\* C16 (amended): the snapshot get_data returns is always a complete matrix,
\* every row exactly buffer_size samples long; it has the capture's channel
\* count of rows until the first replacement, and after a replacement the
\* channel count of a tapped stream.
C16_SnapshotRowsComplete ==
    \A m \in Snapshots :
        /\ CompleteMatrix(m)
        /\ Len(m) \in {CaptureChannels} \cup {taps[t].channels : t \in Taps}
        /\ (buffer.last_update = 0 => Len(m) = CaptureChannels)

\* Both taps have replaced the snapshot, the reader holds a one-row matrix
\* that a mono tap published, the buffer holds a later one, and a tap is in
\* the middle of an accumulation.
C16_Witness ==
    /\ buffer.last_update >= 2
    /\ \E m \in reader.res : Len(m) = 1 /\ m # buffer.data
    /\ \A t \in Taps : Len(taps[t].gave) >= BufferSize * taps[t].channels
    /\ \E t \in Taps : taps[t].sample_buffer # <<>>

\* C17 (as stated): once buffer_size samples have been pulled through a
\* tapped stream, the snapshot has been replaced at least once.
C17_ReplacedAfterBufferSize ==
    \A t \in Taps : Len(taps[t].gave) >= BufferSize => buffer.last_update >= 1

\* C17 (amended): once buffer_size * channels samples have been pulled
\* through a tapped stream of `channels` channels, the snapshot has been
\* replaced at least once.
C17_ReplacedAfterFullScratch ==
    \A t \in Taps :
        Len(taps[t].gave) >= BufferSize * taps[t].channels => buffer.last_update >= 1

\* A two-channel tap has yielded exactly buffer_size * 2 samples while the
\* other tap has yielded none, and the snapshot holds those samples.
C17_Witness ==
    \E t \in Taps :
        /\ taps[t].channels = 2
        /\ Len(taps[t].gave) = BufferSize * 2
        /\ \A u \in Taps \ {t} : taps[u].got = 0
        /\ buffer.last_update = 1
        /\ buffer.data = stream_to_matrix(taps[t].gave, 2)

\* C18: a tap yields exactly the samples of the wrapped stream, in the same
\* order, and ends only when the wrapped stream ends, whatever the state of
\* the shared capture buffer.
C18_TapPassesThrough ==
    \A t \in Taps :
        /\ taps[t].gave = Pulled(t, taps[t].got)
        /\ taps[t].state # "live" => (taps[t].state = "ended" /\ taps[t].got = SrcLen)

\* C19: get_data changes nothing and always yields a complete matrix, the
\* buffer's; before any replacement it is the zero-filled initial buffer;
\* two get_data calls with no replacement between them return equal
\* matrices.
C19_GetDataReadOnly ==
    [][(reader'.reads # reader.reads \/ reader'.res # reader.res
           \/ reader'.at # reader.at) =>
          /\ buffer' = buffer
          /\ taps' = taps
          /\ reader'.res = {buffer.data}
          /\ CompleteMatrix(buffer.data)
          /\ buffer.last_update = 0 =>
               buffer.data = [c \in 1..CaptureChannels |-> [i \in 1..BufferSize |-> 0]]
          /\ (reader.reads > 0 /\ reader.at = buffer.last_update) =>
               reader'.res = reader.res]_vars

\* get_data was called twice before any tap pulled a sample and returned the
\* zero-filled buffer.
C19_Witness ==
    /\ reader.reads = 2
    /\ reader.at = 0
    /\ \A t \in Taps : taps[t].got = 0
    /\ reader.res = {[c \in 1..CaptureChannels |-> [i \in 1..BufferSize |-> 0]]}

\* C20: while the buffer's lock is poisoned no tap ends or loses a sample
\* (next still yields every sample it pulls), get_data returns no data and
\* get_sample_rate returns 48000.
C20_PoisonedLockRecovered ==
    [][buffer.poisoned =>
          /\ \A t \in Taps :
                /\ taps'[t].state # "cut"
                /\ taps'[t].got > taps[t].got =>
                     taps'[t].gave = Append(taps[t].gave, Sample(t, taps'[t].got))
          /\ (reader'.reads # reader.reads \/ reader'.res # reader.res) =>
               reader'.res = {}
          /\ reader'.rate # reader.rate => reader'.rate = DefaultRate]_vars

C23_FailedStartLeavesNothing ==
    enginePc = "failed" =>
        /\ exitBy = "-"
        /\ todo.held = {}
        /\ last.op = "new"
        /\ DOMAIN active_sinks = {}
        /\ mixer = {}
        /\ volume_notify = None
        /\ pause_notify = None
        /\ audio_capture = None
        /\ ~volPermit
        /\ ~pausePermit
        /\ ~shutdown

\* Play::new failed while a key message was already waiting in the channel.
C23_Witness ==
    /\ enginePc = "failed"
    /\ chan # <<>>
    /\ ~Head(chan).stop

\* C24: every voice created by play_note has its source wrapped by an
\* envelope (started in stage Attack at position 0, with a Gate of its own,
\* open) before it is handed to the sink.
C24_VoiceHasEnvelope ==
    \A k \in DOMAIN active_sinks :
        \E i \in 1..Len(active_sinks[k].nodes) : active_sinks[k].nodes[i] = "adsr"

\* C25: the poller emits a key message only when the held set differs from
\* the set of the last emitted message, each message carries (now, prev)
\* with prev the `now` of the previous message (empty at first), and once it
\* sees a stop combination it sends one stop event and nothing afterwards.
C25_PollerMessages ==
    [][/\ Len(chan') = Len(chan) + 1 =>
            LET m == chan'[Len(chan')] IN
            /\ chan' = Append(chan, m)
            /\ pollPc = "run"
            /\ ~m.stop =>
                 /\ m.now # m.prev
                 /\ m.prev = prev
                 /\ prev' = m.now
                 /\ ~StopCombo(m.now)
                 /\ pollPc' = "run"
            /\ m.stop =>
                 /\ pollPc' = "done"
                 /\ pollExit' = "stop"
                 /\ prev' = prev
       /\ pollPc = "done" => (Len(chan') <= Len(chan) /\ pollPc' = "done")
       /\ (pollExit # "stop" /\ pollExit' = "stop") =>
            /\ pollPc' = "done"
            /\ \/ chan' = Append(chan, StopMsg)
               \/ enginePc \notin {"start", "loop", "handling"} /\ chan' = chan
       /\ prev' # prev =>
            \/ Len(chan') = Len(chan) + 1
            \/ enginePc \notin {"start", "loop", "handling"} /\ chan' = chan]_vars

\* The poller has sent key messages, then saw a stop combination and sent
\* the stop event, which waits in the channel.
C25_Witness ==
    /\ pollExit = "stop"
    /\ pollPc = "done"
    /\ prev # {}
    /\ chan = <<StopMsg>>

\* ------------------------------------------------------ Key::transpose
\* A Key is drawn and transposed again and again, each result being the next
\* call's Key, within the octaves of the model; `from` and `m` are the Key and
\* the shift of the call before, once there are two (`twice`).
InitKey ==
    /\ InitStore /\ InitPlay /\ NoAdsr /\ NoRun /\ NoCallers /\ NoTap
    /\ keyCall \in {[key |-> k, n |-> 0, out |-> k, done |-> FALSE,
                      from |-> k, m |-> 0, twice |-> FALSE] : k \in Keys}
    /\ lenCall = None
    /\ ui = None
    /\ app = None

Transpose(n) ==
    /\ absolute_semitone(keyCall.out) + n >= -MaxOctave * SEMITONES_PER_OCTAVE
    /\ absolute_semitone(keyCall.out) + n < (MaxOctave + 1) * SEMITONES_PER_OCTAVE
    /\ keyCall' = [key |-> keyCall.out, n |-> n, out |-> transpose(keyCall.out, n),
                   done |-> TRUE,
                   from |-> keyCall.key, m |-> keyCall.n, twice |-> keyCall.done]
    /\ UNCHANGED <<playVars, storeVars, adsrVars, runVars, lockVars, capVars, lenCall, ui, app>>

NextKey == \E n \in Shifts : Transpose(n)

SpecKey == InitKey /\ [][NextKey]_vars

\* C21: transpose(n) of a Key returns the Key whose absolute semitone is the
\* Key's plus n, with the note in 0..11 (so the note is the value mod 12 and
\* the octave the floor quotient); transpose(12) keeps the note and adds one
\* octave, transpose(0) returns the Key itself.
C21_TransposeFloors ==
    keyCall.done =>
        LET k == keyCall.key
            n == keyCall.n
            out == keyCall.out
        IN /\ out.note \in 0..11
           /\ out.octave * 12 + out.note = k.octave * 12 + k.note + n
           /\ \E q \in -(MaxOctave + 1)..(MaxOctave + 1) :
                 /\ 12 * q <= k.octave * 12 + k.note + n
                 /\ k.octave * 12 + k.note + n < 12 * (q + 1)
                 /\ out.octave = q
           /\ n = 12 => (out.note = k.note /\ out.octave = k.octave + 1)
           /\ n = 0 => out = k

\* A Key of octave 0 transposed down below absolute semitone 0, not onto a C.
C21_Witness ==
    /\ keyCall.done
    /\ keyCall.key.octave = 0
    /\ keyCall.n < 0
    /\ keyCall.out.octave = -1
    /\ keyCall.out.note # 0

\* ------------------------------------------ AdsrSource::stage_len_samples
\* The durations tried, in tenths of a second: NaN, negative, zero, and
\* values whose product with a rate has a fraction below, at and above 1/2.
Seconds == {NaN, -5, 0, 1, 5, 15}
LenRates == {0, 1, 3, 5, DefaultRate}
Stages == {"Attack", "Decay", "Sustain", "Release", "Done"}

InitLen ==
    /\ InitStore /\ InitPlay /\ NoAdsr /\ NoRun /\ NoCallers /\ NoTap
    /\ lenCall \in {[adsr |-> [attack_s |-> a, decay_s |-> d, sustain |-> 5, release_s |-> r],
                     sample_rate |-> sr, stage |-> "Attack", out |-> 0, done |-> FALSE] :
                    a \in Seconds, d \in Seconds, r \in Seconds, sr \in LenRates}
    /\ keyCall = None
    /\ ui = None
    /\ app = None

StageLen(stage) ==
    /\ lenCall' = [lenCall EXCEPT
                     !.stage = stage,
                     !.out = stage_len_samples(AdsrNew(lenCall.adsr, lenCall.sample_rate), stage),
                     !.done = TRUE]
    /\ UNCHANGED <<playVars, storeVars, adsrVars, runVars, lockVars, capVars, keyCall, ui, app>>

NextLen == \E stage \in Stages : StageLen(stage)

SpecLen == InitLen /\ [][NextLen]_vars

\* The duration the envelope has for a stage, NaN where the stage has none.
C29_SecondsOf(adsr, stage) ==
    CASE stage = "Attack" -> adsr.attack_s
      [] stage = "Decay" -> adsr.decay_s
      [] stage = "Release" -> adsr.release_s
      [] OTHER -> NaN

\* C29: the length of a stage in samples is seconds * sample_rate rounded to
\* the nearest integer for Attack, Decay and Release, 0 when the sample rate
\* is 0 or the duration is negative or NaN, 0 for Sustain and Done, and
\* never negative.
C29_StageLength ==
    lenCall.done =>
        LET s == C29_SecondsOf(lenCall.adsr, lenCall.stage)
            sr == lenCall.sample_rate
            out == lenCall.out
        IN /\ out >= 0
           /\ lenCall.stage \in {"Sustain", "Done"} => out = 0
           /\ (lenCall.stage \in {"Attack", "Decay", "Release"}
                 /\ (sr = 0 \/ s = NaN \/ s < 0)) => out = 0
           /\ (lenCall.stage \in {"Attack", "Decay", "Release"} /\ s # NaN /\ s >= 0) =>
                 /\ 10 * out - 5 <= s * sr
                 /\ s * sr < 10 * out + 5

\* Release of 1.5 s at 5 samples a second: 7.5 samples, rounded to 8.
C29_Witness ==
    /\ lenCall.done
    /\ lenCall.stage = "Release"
    /\ lenCall.adsr.release_s = 15
    /\ lenCall.sample_rate = 5
    /\ lenCall.out = 8

\* ------------------------------------------------------ ui.rs: tweak_adsr
\* The envelope parameters are kept in hundredths: tweak_adsr's step is 0.01.
AdsrParams == <<"Attack", "Decay", "Sustain", "Release">>

\* UiState::selected_adsr_param
selected_adsr_param(u) == AdsrParams[u.adsr_param_idx + 1]

\* ui_selected_small_step: 0.01 for every parameter.
ui_selected_small_step(p) == IF p = "Sustain" THEN 1 ELSE 1

\* f32::max, f32::min and f32::clamp on values that are not NaN.
fmax(a, b) == IF a < b THEN b ELSE a
fmin(a, b) == IF b < a THEN b ELSE a
fclamp(v, lo, hi) == IF v < lo THEN lo ELSE IF v > hi THEN hi ELSE v

\* A tweak_adsr without the final min(10.0) of the three durations.
tweak_adsrUncapped(u, dir) ==
    LET step == ui_selected_small_step(selected_adsr_param(u))
        d == IF dir < 0 THEN -step ELSE step
        p == selected_adsr_param(u)
    IN CASE p = "Attack" -> [u EXCEPT !.adsr.attack_s = fmax(@ + d, 0)]
         [] p = "Decay" -> [u EXCEPT !.adsr.decay_s = fmax(@ + d, 0)]
         [] p = "Sustain" -> [u EXCEPT !.adsr.sustain = fclamp(@ + d, 0, SustainOne)]
         [] p = "Release" -> [u EXCEPT !.adsr.release_s = fmax(@ + d, 0)]

\* tweak_adsr: the UiState after the call.
tweak_adsr(u, dir) ==
    LET step == ui_selected_small_step(selected_adsr_param(u))
        d == IF dir < 0 THEN -step ELSE step
        p == selected_adsr_param(u)
        edited ==
            CASE p = "Attack" -> [u EXCEPT !.adsr.attack_s = fmax(@ + d, 0)]
              [] p = "Decay" -> [u EXCEPT !.adsr.decay_s = fmax(@ + d, 0)]
              [] p = "Sustain" -> [u EXCEPT !.adsr.sustain = fclamp(@ + d, 0, SustainOne)]
              [] p = "Release" -> [u EXCEPT !.adsr.release_s = fmax(@ + d, 0)]
    IN [edited EXCEPT !.adsr.attack_s = fmin(@, TenSeconds),
                      !.adsr.decay_s = fmin(@, TenSeconds),
                      !.adsr.release_s = fmin(@, TenSeconds)]

\* The envelope pane after some edits: the envelope run_ui starts with,
\* Adsr::new(0.01, 0.10, 0.70, 0.25), or a parameter at a bound the edits
\* lead to. `set_adsr` is the last envelope handed to handle.set_adsr, `edits`
\* counts the calls of tweak_adsr.
InitUi ==
    /\ InitStore /\ InitPlay /\ NoAdsr /\ NoRun /\ NoCallers /\ NoTap
    /\ ui \in {[adsr |-> [attack_s |-> a, decay_s |-> d, sustain |-> s, release_s |-> r],
                adsr_param_idx |-> 0, set_adsr |-> {}, edits |-> 0] :
               a \in {0, 1, TenSeconds}, d \in {0, 10, TenSeconds},
               s \in {0, 70, SustainOne}, r \in {0, 25, TenSeconds}}
    /\ keyCall = None
    /\ lenCall = None
    /\ app = None

\* KeyCode::Up in the envelope pane.
AdsrKeyUp ==
    /\ ui' = [ui EXCEPT !.adsr_param_idx = IF @ > 0 THEN @ - 1 ELSE @]
    /\ UNCHANGED <<playVars, storeVars, adsrVars, runVars, lockVars, capVars, keyCall, lenCall, app>>

\* KeyCode::Down in the envelope pane.
AdsrKeyDown ==
    /\ ui' = [ui EXCEPT !.adsr_param_idx = IF @ + 1 < 4 THEN @ + 1 ELSE @]
    /\ UNCHANGED <<playVars, storeVars, adsrVars, runVars, lockVars, capVars, keyCall, lenCall, app>>

\* KeyCode::Left (dir = -1) and KeyCode::Right (dir = 1) in the envelope
\* pane: tweak_adsr, then handle.set_adsr(ui.adsr).
AdsrKeyTweak(dir) ==
    /\ ui.edits < MaxEdits
    /\ LET u == tweak_adsr(ui, dir)
       IN ui' = [u EXCEPT !.set_adsr = {u.adsr}, !.edits = @ + 1]
    /\ UNCHANGED <<playVars, storeVars, adsrVars, runVars, lockVars, capVars, keyCall, lenCall, app>>

NextUi ==
    \/ AdsrKeyUp
    \/ AdsrKeyDown
    \/ \E dir \in {-1, 1} : AdsrKeyTweak(dir)

SpecUi == InitUi /\ [][NextUi]_vars

\* ----------------------------------------------------------- visualizer.rs
\* GraphConfig.width as VisualizerApp::new sets it.
GraphWidth == 2048
\* The scale 1.0 and the end 10.0 of the scale's range, in thousandths.
ScaleOne == 1000
ScaleMax == 10000
\* The largest integer of the model, 2^31 - 1, in the place of u32::MAX
\* (2^32 - 1): the sample counts and their steps are far below both.
U32Max == 2147483647

\* display::update_value_f on thousandths; the magnitude is in tenths and
\* the range is [start, end].
update_value_f(val, base, magnitude, range) ==
    LET delta == (base * magnitude) \div 10
        next == val + delta
    IN IF next > range.end THEN range.end
       ELSE IF next < range.start THEN range.start
       ELSE next

\* An update of the sample count whose u32 arithmetic wraps.
update_value_iWrapping(val, inc, base, magnitude, range) ==
    LET delta == (base * magnitude) \div 10
        wrapped == IF val - delta < 0 THEN (U32Max + (val - delta)) + 1 ELSE val - delta
    IN IF inc
       THEN fmin(val + delta, range.end)
       ELSE fmax(wrapped, range.start)

\* display::update_value_i: the delta is (base as f64 * magnitude) as u32,
\* the sum and the difference saturate in u32.
update_value_i(val, inc, base, magnitude, range) ==
    LET delta == (base * magnitude) \div 10
    IN IF inc
       THEN LET next == IF val > U32Max - delta THEN U32Max ELSE val + delta
            IN IF next < range.end THEN next ELSE range.end
       ELSE LET next == IF val - delta < 0 THEN 0 ELSE val - delta
            IN IF next > range.start THEN next ELSE range.start

\* The events process_event is given: a key with its modifiers, or an event
\* that is no key.
KeyCodes == {"Up", "Down", "Left", "Right", " ", "s", "h", "r", "q", "c", "w", "Esc", "x"}
KeyModifiers == {"NONE", "SHIFT", "CONTROL", "ALT", "CONTROL|SHIFT"}
Events == [kind : {"Key"}, code : KeyCodes, modifiers : KeyModifiers]
              \cup {[kind |-> "Resize", code |-> "-", modifiers |-> "NONE"]}

\* The magnitude of process_event's match on the modifiers, in tenths.
magnitude(modifiers) ==
    CASE modifiers = "SHIFT" -> 100
      [] modifiers = "CONTROL" -> 50
      [] modifiers = "ALT" -> 2
      [] OTHER -> 10

\* VisualizerApp::process_event: the graph after the event and the value
\* returned. The oscilloscope's reset and handle get the oscilloscope and the
\* event only, and leave the graph alone.
process_event(graph, event) ==
    IF event.kind # "Key" THEN [graph |-> graph, quit |-> FALSE]
    ELSE IF event.modifiers = "CONTROL" /\ event.code \in {"c", "q", "w"}
    THEN [graph |-> graph, quit |-> TRUE]
    ELSE
      LET m == magnitude(event.modifiers)
          scaleRange == [start |-> 0, end |-> ScaleMax]
          samplesRange == [start |-> 0, end |-> graph.width * 2]
          g == CASE event.code = "Up" ->
                      [graph EXCEPT !.scale = update_value_f(@, 10, m, scaleRange)]
                 [] event.code = "Down" ->
                      [graph EXCEPT !.scale = update_value_f(@, -10, m, scaleRange)]
                 [] event.code = "Right" ->
                      [graph EXCEPT !.samples = update_value_i(@, TRUE, 25, m, samplesRange)]
                 [] event.code = "Left" ->
                      [graph EXCEPT !.samples = update_value_i(@, FALSE, 25, m, samplesRange)]
                 [] event.code = " " -> [graph EXCEPT !.pause = ~@]
                 [] event.code = "s" -> [graph EXCEPT !.scatter = ~@]
                 [] event.code = "h" -> [graph EXCEPT !.show_ui = ~@]
                 [] event.code = "r" -> [graph EXCEPT !.references = ~@]
                 [] event.code = "Esc" ->
                      [graph EXCEPT !.samples = graph.width, !.scale = ScaleOne]
                 [] OTHER -> graph
      IN [graph |-> g, quit |-> event.code = "q"]

\* The graph of VisualizerApp::new, or one whose sample count and scale are
\* at or next to a bound that key events lead to.
InitViz ==
    /\ InitStore /\ InitPlay /\ NoAdsr /\ NoRun /\ NoCallers /\ NoTap
    /\ keyCall = None
    /\ lenCall = None
    /\ ui = None
    /\ \E samples \in {0, 3, GraphWidth, 2 * GraphWidth - 3, 2 * GraphWidth},
          scale \in {0, 2, ScaleOne, ScaleMax - 2, ScaleMax} :
         LET graph == [scale |-> scale, width |-> GraphWidth, samples |-> samples,
                       references |-> TRUE, show_ui |-> TRUE, scatter |-> FALSE,
                       pause |-> FALSE]
         IN app = [graph |-> graph, old |-> graph, event |-> {}, quit |-> {}, events |-> 0]

\* VisualizerApp::handle_events with an event to read.
ProcessEvent(event) ==
    /\ app.events < MaxEvents
    /\ LET r == process_event(app.graph, event)
       IN app' = [graph |-> r.graph, old |-> app.graph, event |-> {event},
                  quit |-> {r.quit}, events |-> app.events + 1]
    /\ UNCHANGED <<playVars, storeVars, adsrVars, runVars, lockVars, capVars, keyCall, lenCall, ui>>

NextViz == \E event \in Events : ProcessEvent(event)

SpecViz == InitViz /\ [][NextViz]_vars

\* The envelope's parameters in the order of AdsrParams.
C30_Values(adsr) == <<adsr.attack_s, adsr.decay_s, adsr.sustain, adsr.release_s>>

C30_InRange(adsr) ==
    /\ adsr.attack_s >= 0 /\ adsr.attack_s <= 1000
    /\ adsr.decay_s >= 0 /\ adsr.decay_s <= 1000
    /\ adsr.release_s >= 0 /\ adsr.release_s <= 1000
    /\ adsr.sustain >= 0 /\ adsr.sustain <= 100

\* C30: an edit of an envelope whose durations are in [0, 10] and whose
\* sustain is in [0, 1] leaves them there, changes no parameter but the
\* selected one, and hands the edited envelope to set_adsr.
C30_TweakKeepsRanges ==
    [][(ui'.edits # ui.edits /\ C30_InRange(ui.adsr)) =>
          /\ C30_InRange(ui'.adsr)
          /\ \A i \in 1..4 :
                i # ui.adsr_param_idx + 1 => C30_Values(ui'.adsr)[i] = C30_Values(ui.adsr)[i]
          /\ ui'.adsr_param_idx = ui.adsr_param_idx
          /\ ui'.set_adsr = {ui'.adsr}]_vars

\* The attack, at 10 s, was edited upwards and stayed at 10 s, and the
\* sustain, at 0, was edited downwards and stayed at 0.
C30_Witness ==
    /\ ui.edits >= 2
    /\ ui.adsr.attack_s = 1000
    /\ ui.adsr.sustain = 0
    /\ ui.adsr_param_idx = 2
    /\ ui.set_adsr = {ui.adsr}

\* C27: each published snapshot is the de-interleaving of the consecutive
\* samples one tap has accumulated: sample i (from 0) of the scratch is in
\* row i mod channels at index i div channels, nothing else is in the
\* snapshot, no sample of another tap is in it, and a tap's scratch is
\* emptied exactly when it publishes.
C27_SnapshotIsOneTapsScratch ==
    [][/\ buffer'.last_update # buffer.last_update =>
            \E t \in Taps :
                LET ch == taps[t].channels
                    n == Len(taps[t].sample_buffer) + 1
                    first == taps'[t].got - n
                IN /\ \A u \in Taps \ {t} : taps'[u] = taps[u]
                   /\ taps'[t].got = taps[t].got + 1
                   /\ \A i \in 1..(n - 1) : taps[t].sample_buffer[i] = Sample(t, first + i)
                   /\ Len(buffer'.data) = ch
                   /\ \A i \in 0..(n - 1) :
                         buffer'.data[(i % ch) + 1][(i \div ch) + 1] = Sample(t, first + 1 + i)
                   /\ \A c \in 1..ch :
                         Len(buffer'.data[c]) = Cardinality({i \in 0..(n - 1) : i % ch = c - 1})
                   /\ taps'[t].sample_buffer = <<>>
       /\ \A t \in Taps :
            (taps[t].sample_buffer # <<>> /\ taps'[t].sample_buffer = <<>>) =>
                buffer'.last_update # buffer.last_update]_vars

\* After a snapshot of the other tap, a two-channel tap has published the
\* first 2 * buffer_size samples of its source, while the other tap is in the
\* middle of an accumulation.
C27_Witness ==
    \E t \in Taps :
        /\ taps[t].channels = 2
        /\ taps[t].got = 2 * BufferSize
        /\ taps[t].sample_buffer = <<>>
        /\ buffer.last_update >= 2
        /\ Len(buffer.data) = 2
        /\ \A i \in 0..(2 * BufferSize - 1) :
              buffer.data[(i % 2) + 1][(i \div 2) + 1] = Sample(t, i + 1)
        /\ \E u \in Taps \ {t} : taps[u].sample_buffer # <<>>

\* C26: a tap never holds the capture's lock while it pulls a sample from
\* its source; it holds the lock only in the block that reads the row length,
\* which leaves the buffer as it is, and, apart from it, in the block that
\* replaces the snapshot; nobody else touches the buffer meanwhile.
C26_NoLockAcrossPull ==
    /\ [](\A t \in Taps :
             /\ buffer.holder = t => taps[t].state \in {"len", "replace"}
             /\ taps[t].state \in {"len", "replace"} => buffer.holder = t)
    /\ [][\A t \in Taps :
             /\ taps'[t].got # taps[t].got =>
                  (buffer.holder # t /\ buffer'.holder # t)
             /\ (buffer.holder = t /\ taps'[t] = taps[t]) => buffer' = buffer
             /\ (buffer.holder = t /\ taps'[t] # taps[t] /\ taps[t].state = "len") =>
                  /\ buffer'.holder = 0
                  /\ buffer'.data = buffer.data
                  /\ buffer'.last_update = buffer.last_update
                  /\ taps'[t].got = taps[t].got
             /\ (buffer.holder = t /\ taps'[t] # taps[t] /\ taps[t].state = "replace") =>
                  /\ buffer'.holder = 0
                  /\ buffer'.last_update = buffer.last_update + 1
                  /\ taps'[t].got = taps[t].got
             /\ (buffer.holder # t /\ buffer'.holder = t) =>
                  taps[t].state \in {"pulled", "full"}]_vars

\* A tap has pulled a sample while the other tap is in its replacement block
\* with the lock held.
C26_Witness ==
    \E t \in Taps :
        /\ buffer.holder = t
        /\ taps[t].state = "replace"
        /\ \E u \in Taps \ {t} : taps[u].state = "pulled" /\ taps[u].got > Len(taps[u].gave)
        /\ buffer.last_update >= 1

\* The reads as whole steps of the store.
C28_GetVolumeStep(t) == GetVolume(t) /\ UNCHANGED otherThanConcerns
C28_IsMutedStep(t) == IsMuted(t) /\ UNCHANGED otherThanConcerns

\* C28: the store's concerns are independent: a get_volume completes
\* whenever no write guard of the volume is alive, and an is_muted whenever
\* no write guard of the mute flag is alive, whatever write guards of the
\* other concerns are held; the read returns the field's value.
C28_ReadsIndependent ==
    /\ [](\A t \in ConcernTasks :
             /\ (callers[t].pc = "idle" /\ concerns.volume = 0) => ENABLED C28_GetVolumeStep(t)
             /\ (callers[t].pc = "idle" /\ pausedLock = 0) => ENABLED C28_IsMutedStep(t))
    /\ [][/\ (concerns' # concerns /\ concerns'.what = "get_volume"
                /\ concerns'.volume = concerns.volume /\ concerns'.source = concerns.source) =>
               /\ concerns'.vol = volume
               /\ "volume" \notin concerns'.others
          /\ (concerns' # concerns /\ concerns'.what = "is_muted"
                /\ concerns'.volume = concerns.volume /\ concerns'.source = concerns.source) =>
               /\ concerns'.muted = paused
               /\ "paused" \notin concerns'.others]_vars

\* A get_volume has returned a volume a writer had set, while two other
\* callers held the write guards of the source and of the mute flag.
C28_Witness ==
    /\ concerns.what = "get_volume"
    /\ concerns.others = {"source", "paused"}
    /\ concerns.vol = 5

\* C31: when the engine has processed a message (now, prev) and waits in its
\* select again, the keys with a voice are exactly the keys of `now` that
\* from_keycode maps to a Key (`now` being the `prev` of the next message, or
\* of the poller when none waits), each with one sink of its own in the
\* mixer.
C31_VoicesAreMappedHeld ==
    enginePc = "loop" =>
        /\ todo.held = (IF chan # <<>> /\ ~Head(chan).stop THEN Head(chan).prev ELSE prev)
        /\ DOMAIN active_sinks = {k \in todo.held : from_keycode(k) # {}}
        /\ \A k \in DOMAIN active_sinks : from_keycode(k) # {}
        /\ \A j, k \in DOMAIN active_sinks : j # k => active_sinks[j].id # active_sinks[k].id
        /\ mixer = {active_sinks[k].id : k \in DOMAIN active_sinks}

\* The engine has processed a message with A and the unmapped key C held,
\* after a message in which S was held: only A has a voice.
C31_Witness ==
    /\ enginePc = "loop"
    /\ todo.held = {"A", "C"}
    /\ DOMAIN active_sinks = {"A"}
    /\ last.op = "stop_note"
    /\ last.key = "S"
    /\ last.had

\* C32: whenever the engine waits in its select with no volume or mute
\* notification pending and no settings write in progress, every voice has
\* the stored volume and is paused iff the store is muted, the voices whose
\* play_note read the settings while a write went on included.
C32_QuiescentVoicesFollowStore ==
    (enginePc = "loop" /\ ~volPermit /\ ~pausePermit /\ writer = "idle") =>
        \A k \in DOMAIN active_sinks :
            /\ active_sinks[k].volume = volume
            /\ active_sinks[k].paused = paused

\* The store was written between the reads and the insert of the last
\* play_note; the syncs have run since, and the voice has the stored values.
C32_Witness ==
    /\ enginePc = "loop"
    /\ ~volPermit /\ ~pausePermit
    /\ writer = "idle"
    /\ todo.note.raced
    /\ todo.note.key \in DOMAIN active_sinks
    /\ active_sinks[todo.note.key].volume = volume
    /\ active_sinks[todo.note.key].paused = paused
    /\ volume # VolOne
    /\ paused

\* C33: the store's locks cannot deadlock the store's callers and the
\* engine: under fair scheduling every started call returns.
C33_NoStoreDeadlock ==
    \A t \in LockTasks : (locks.task[t].op # "idle") ~> (locks.task[t].op = "idle")

\* play_note holds the source's read guard and waits for the volume, whose
\* write guard set_volume holds, while set_source waits for the source.
C33_Witness ==
    /\ locks.task[1].op = "play_note"
    /\ locks.task[1].waiting
    /\ 1 \in locks.rw["source"].r
    /\ locks.rw["volume"].w = 2
    /\ locks.task[3].op = "set_source"
    /\ locks.task[3].waiting

\* C34: transposition composes additively: k.transpose(a).transpose(b) is
\* k.transpose(a + b), so a shift followed by the opposite shift returns the
\* Key, and every Key that transpose returns has its note in 0..11.
C34_TransposeAdditive ==
    keyCall.twice =>
        /\ keyCall.out = transpose(keyCall.from, keyCall.m + keyCall.n)
        /\ keyCall.out.octave * SEMITONES_PER_OCTAVE + keyCall.out.note
             = keyCall.from.octave * SEMITONES_PER_OCTAVE + keyCall.from.note + keyCall.m + keyCall.n
        /\ keyCall.n = -keyCall.m => keyCall.out = keyCall.from
        /\ keyCall.key.note \in 0..11
        /\ keyCall.out.note \in 0..11

\* A Key of octave 0 was transposed down by 13 into octave -2 or -1 and then
\* up by 13, back to itself.
C34_Witness ==
    /\ keyCall.twice
    /\ keyCall.from.octave = 0
    /\ keyCall.m = -13
    /\ keyCall.key.octave < 0
    /\ keyCall.n = 13
    /\ keyCall.out = keyCall.from

\* The step of the sample count for an event's modifiers.
C35_Delta(e) == (25 * magnitude(e.modifiers)) \div 10

\* C35: after any sequence of key events the sample count is within
\* [0, 2 * width] and the scale within [0, 10]: a step past a bound stops at
\* the bound. Esc sets the sample count to the width and the scale to 1.0;
\* Ctrl+c, Ctrl+q and Ctrl+w return quit and leave the graph as it was; a
\* plain q returns quit.
C35_GraphStaysInRange ==
    /\ app.graph.samples >= 0 /\ app.graph.samples <= 2 * app.graph.width
    /\ app.graph.scale >= 0 /\ app.graph.scale <= ScaleMax
    /\ app.graph.width = GraphWidth
    /\ \A e \in app.event :
         /\ e.kind = "Key" /\ e.code = "Esc" =>
              app.graph.samples = app.graph.width /\ app.graph.scale = ScaleOne
         /\ e.kind = "Key" /\ e.modifiers = "CONTROL" /\ e.code \in {"c", "q", "w"} =>
              app.quit = {TRUE} /\ app.graph = app.old
         /\ e.kind = "Key" /\ e.modifiers = "NONE" /\ e.code = "q" => app.quit = {TRUE}
         /\ e.kind = "Key" /\ e.code = "Left" /\ app.old.samples < C35_Delta(e) =>
              app.graph.samples = 0
         /\ e.kind = "Key" /\ e.code = "Right"
              /\ app.old.samples + C35_Delta(e) > 2 * app.graph.width =>
              app.graph.samples = 2 * app.graph.width

\* Left was pressed with 3 samples and the count stopped at 0, after an
\* earlier event had taken the scale from 9.998 to its end 10.
C35_Witness ==
    /\ app.events >= 2
    /\ app.event = {[kind |-> "Key", code |-> "Left", modifiers |-> "NONE"]}
    /\ app.old.samples = 3
    /\ app.graph.samples = 0
    /\ app.graph.scale = ScaleMax

====
